---- MODULE Spec2Model ----
(***************************************************************************)
(* The usage-analytics engine of CCSeva (CCUsageService) as a state        *)
(* machine: the snapshot cache with its 3 s freshness window, the          *)
(* asynchronous recomputation over the two loader fetches, the plan/limit  *)
(* resolution and the default snapshot.  Times are milliseconds.           *)
(***************************************************************************)
EXTENDS Integers, Sequences, FiniteSets, TLC

VARIABLES
    now,                \* the wall clock, Date.now()
    cachedStats,        \* CCUsageService.cachedStats
    lastUpdate,         \* CCUsageService.lastUpdate
    currentPlan,        \* CCUsageService.currentPlan
    detectedTokenLimit, \* CCUsageService.detectedTokenLimit
    currentActiveBlock, \* CCUsageService.currentActiveBlock
    historicalBlocks,   \* CCUsageService.historicalBlocks
    resetConfig,        \* the configuration held by CCUsageService.resetTimeService
    calls,              \* the getUsageStats calls at their await, by call slot
    returned,           \* what the step just taken returned to its caller
    cacheBegan,         \* history: when the recomputation that filled the cache began
    cfgSinceCache,      \* history: updateConfiguration ran after the cache was last filled
    cfgPending,         \* history: updateConfiguration ran with nothing in flight, no call since
    cfgInFlight,        \* history: updateConfiguration ran during a recomputation, no call since
    lastReturn,         \* history: the latest snapshot returned (kept under SpecIdem only)
    refresh,            \* the 'refresh-data' IPC handler's invocations (move under SpecRefresh only)
    lastConfig          \* history: the configuration last given to updateConfiguration
                        \* (kept under SpecCustom only)

engine == <<cachedStats, lastUpdate, currentPlan, detectedTokenLimit,
            currentActiveBlock, historicalBlocks, resetConfig>>
history == <<cacheBegan, cfgSinceCache, cfgPending, cfgInFlight>>
aside == <<lastReturn, refresh, lastConfig>>
vars == <<now, engine, calls, returned, history, aside>>

----------------------------------------------------------------------------
(* Values *)

\* null, and an absent (undefined) argument or loader result
Null == [isNull |-> TRUE]
Undefined == [defined |-> FALSE]
Defined(v) == [defined |-> TRUE, value |-> v]

\* a Date object, by its getTime()
Date(t) == [time |-> t]

CACHE_DURATION == 3000

MsPerMinute == 1000 * 60
MsPerHour == 1000 * 60 * 60
MsPerDay == 24 * 60 * 60 * 1000

Plans == {"Pro", "Max5", "Max20", "Custom"}

\* the call sites of getUsageStats in the main process: the tray poll
\* (updateTrayTitle) and the renderer's IPC requests
Callers == {"tray", "ipc"}

----------------------------------------------------------------------------
(* Bounds and input sets *)

MaxSeconds == 3
MaxNow == MaxSeconds * 1000
TickSteps == {1000, 1999}
MaxBlocks == 2
\* how many getUsageStats calls the model lets be at their await at once (the
\* code sets no limit)
MaxInFlight == 2
CallSlots == 1..MaxInFlight

Counts(i, o, cc, cr) ==
    [inputTokens |-> i, outputTokens |-> o,
     cacheCreationInputTokens |-> cc, cacheReadInputTokens |-> cr]

\* four-kind totals 0, 4900, 5000, 6300, 7000, 7500, 40000 and 150000
NoTokens == Counts(0, 0, 0, 0)
ActiveCounts == {Counts(1000, 2000, 1500, 500), Counts(3000, 2000, 1500, 500),
                 Counts(3000, 2000, 2000, 500), Counts(100000, 40000, 9500, 500),
                 Counts(2900, 1000, 500, 500), Counts(4300, 1000, 500, 500)}
HistoryCounts == {NoTokens, Counts(1000, 2000, 1500, 500), Counts(30000, 8000, 1500, 500)}

\* nominal end of a session block: one the clock passes during a run, and one
\* five hours on
EndSoon == 2 * 1000
EndLater == 5 * MsPerHour

Block(active, gap, counts, endT) ==
    [isActive |-> active, isGap |-> gap, tokenCounts |-> counts,
     startTime |-> Date(endT - 5 * MsPerHour), endTime |-> Date(endT),
     actualEndTime |-> Undefined,
     costUSD |-> 2, models |-> <<"opus", "<synthetic>">>]

\* a closed block of one token whose end lies 1 ms inside the hour before
\* time 0: a burn rate that is positive and tiny
TinyRateBlock == Block(FALSE, FALSE, Counts(1, 0, 0, 0), 1 - MsPerHour)

\* active blocks of every total, closed blocks of the history, and gap blocks
\* (ccusage gives a gap no tokens; an active gap with tokens shows what isGap does)
BlockSet ==
         {Block(TRUE, FALSE, c, EndSoon) : c \in ActiveCounts}
    \cup {Block(TRUE, FALSE, Counts(1000, 2000, 1500, 500), EndLater)}
    \cup {TinyRateBlock}
    \cup {Block(FALSE, FALSE, c, EndSoon) : c \in HistoryCounts}
    \cup {Block(FALSE, TRUE, NoTokens, EndSoon),
          Block(TRUE, TRUE, Counts(30000, 8000, 1500, 500), EndSoon)}

\* the clock of the velocity computations, and a block placed against it: a
\* four-kind total, start and nominal end in minutes before the clock, and the
\* actual end where ccusage reports one
VelocityNow == 48 * MsPerHour

MinutesAgo(m) == Date(VelocityNow - m * MsPerMinute)

SessionBlock(active, gap, total, startAgo, endAgo, actualEnd) ==
    [isActive |-> active, isGap |-> gap,
     tokenCounts |-> IF total >= 3 THEN Counts(total - 3, 1, 1, 1) ELSE Counts(total, 0, 0, 0),
     startTime |-> MinutesAgo(startAgo), endTime |-> MinutesAgo(endAgo),
     actualEndTime |-> actualEnd,
     costUSD |-> 2, models |-> <<"opus">>]

\* totals of the active block that, with a closed block carrying the rest of
\* 2400 tokens, put the current hourly rate at and around 15, 20 and 50 percent
\* above and below a 24h average of 100 tokens per hour
TrendProbes == {0, 40, 50, 85, 86, 115, 116, 120, 121, 150, 151}

\* totals of an active and a closed block whose hourly rate is not the sum
\* after / 60 * 60, or whose trend percent is not the exact one: 483 against a
\* 24h average of 420 (15 percent), 498 against 415 (20 percent), 103 against
\* 80 (28.75 percent)
RoundingProbes == {<<483, 9597>>, <<498, 9462>>, <<103, 1817>>}

\* blocks around the trailing hour: an active block one and two hours old; a
\* closed two-hour block of 1200 tokens with 30 minutes inside the hour; a block
\* whose actual end precedes its nominal end; a block closed before the hour;
\* one closed two days ago; a closed block whose nominal end is still ahead;
\* gaps inside the hour
WindowBlocks ==
    {SessionBlock(TRUE, FALSE, 2400, 120, -180, Undefined),
     SessionBlock(FALSE, FALSE, 1200, 150, 30, Undefined),
     SessionBlock(FALSE, FALSE, 900, 90, -210, MinutesAgo(30)),
     SessionBlock(FALSE, FALSE, 2400, 600, 300, Undefined),
     SessionBlock(FALSE, FALSE, 4800, 2 * 24 * 60, 2 * 24 * 60 - 300, Undefined),
     SessionBlock(FALSE, FALSE, 600, 40, -260, Undefined),
     SessionBlock(FALSE, TRUE, 0, 50, 10, Undefined),
     SessionBlock(TRUE, TRUE, 700, 50, -250, Undefined)}

\* the blocks of the velocity steps; the last but one are closed blocks with
\* 1 ms inside the trailing hour of VelocityNow
VelocityBlockSet ==
         {SessionBlock(TRUE, FALSE, a, 60, -240, Undefined) : a \in TrendProbes}
    \cup {SessionBlock(FALSE, FALSE, 2400 - a, 600, 300, Undefined) : a \in TrendProbes}
    \cup {SessionBlock(TRUE, FALSE, p[1], 60, -240, Undefined) : p \in RoundingProbes}
    \cup {SessionBlock(FALSE, FALSE, p[2], 600, 300, Undefined) : p \in RoundingProbes}
    \cup {[isActive |-> FALSE, isGap |-> FALSE, tokenCounts |-> Counts(total, 0, 0, 0),
           startTime |-> Date(VelocityNow - 6 * MsPerHour + 1),
           endTime |-> Date(VelocityNow - MsPerHour + 1),
           actualEndTime |-> Undefined,
           costUSD |-> 2, models |-> <<"opus">>] : total \in {1, 1000}}
    \cup WindowBlocks

\* token counts the plan lookups are probed with: from 0 up, around each
\* threshold, and far above the last
PlanProbeRadius == 20
TokenProbes ==
    (0..PlanProbeRadius)
    \cup UNION {(t - PlanProbeRadius)..(t + PlanProbeRadius) : t \in {7000, 35000, 140000}}
    \cup {500000, 1000000}

RECURSIVE SeqsUpTo(_, _)
SeqsUpTo(S, n) ==
    IF n = 0 THEN {<<>>}
    ELSE LET shorter == SeqsUpTo(S, n - 1)
         IN shorter \cup {Append(s, x) : s \in shorter, x \in S}

\* the block lists the velocity computations are run on
VelocityBlockLists == SeqsUpTo(VelocityBlockSet, MaxBlocks)

\* a history that sets a limit of 40000, the tiny burn rate, and an active
\* block above the Pro threshold that started at time 0
PromotedTinyRate ==
    <<Block(FALSE, FALSE, Counts(30000, 8000, 1500, 500), -2 * MsPerHour),
      TinyRateBlock,
      Block(TRUE, FALSE, Counts(3000, 2000, 2000, 500), EndLater)>>

\* what loadSessionBlockData can resolve with
BlockResults ==
    {Undefined} \cup {Defined(bs) : bs \in SeqsUpTo(BlockSet, MaxBlocks)}
                \cup {Defined(PromotedTinyRate)}

\* the block lists the polled engine is run on: zero blocks, history only, an
\* active block within the Pro threshold, history and an active block above it
PolledBlockResults ==
    {Defined(<<>>),
     Defined(<<Block(FALSE, FALSE, Counts(1000, 2000, 1500, 500), EndSoon)>>),
     Defined(<<Block(TRUE, FALSE, Counts(1000, 2000, 1500, 500), EndSoon)>>),
     Defined(<<Block(FALSE, FALSE, Counts(30000, 8000, 1500, 500), EndSoon),
               Block(TRUE, FALSE, Counts(3000, 2000, 2000, 500), EndSoon)>>)}

\* the polled lists and the list whose prediction throws at time 0
ThrowingBlockResults == PolledBlockResults \cup {Defined(PromotedTinyRate)}

\* what the loaders resolve with while calls overlap: an active block within
\* the Pro threshold, or a closed block and an active block above it
ConcurrentBlockResults ==
    {Defined(<<Block(TRUE, FALSE, Counts(1000, 2000, 1500, 500), EndSoon)>>),
     Defined(<<Block(FALSE, FALSE, Counts(30000, 8000, 1500, 500), EndSoon),
               Block(TRUE, FALSE, Counts(3000, 2000, 2000, 500), EndSoon)>>)}

Breakdown(name) ==
    [modelName |-> name, inputTokens |-> 10, outputTokens |-> 20,
     cacheCreationTokens |-> 30, cacheReadTokens |-> 40, cost |-> 1]

DailyEntry(day, names) ==
    [date |-> day, inputTokens |-> 100, outputTokens |-> 200,
     cacheCreationTokens |-> 300, cacheReadTokens |-> 400, totalCost |-> 3,
     modelBreakdowns |-> [i \in 1..Len(names) |-> Breakdown(names[i])]]

\* what loadDailyUsageData can resolve with; dates are day numbers, day 0 the
\* day the run starts in
DailyResults ==
    {Undefined, Defined(<<>>),
     Defined(<<DailyEntry(0, <<"opus", "<synthetic>">>)>>),
     Defined(<<DailyEntry(-10, <<"sonnet">>)>>)}

PolledDailyResults == {Defined(<<>>), Defined(<<DailyEntry(0, <<"opus", "<synthetic>">>)>>)}

----------------------------------------------------------------------------
(* The engine's functions *)

\* Date.getTimezoneOffset() of the process, minutes west of UTC
TimezoneOffsetMinutes == 0

\* date.toISOString().split('T')[0]: the UTC calendar day, as a day number
UTCDay(t) == t \div MsPerDay

\* toISOStringLocal(date).split('T')[0]: the local calendar day
toISOStringLocal(t) == (t - TimezoneOffsetMinutes * MsPerMinute) \div MsPerDay

Max2(a, b) == IF a >= b THEN a ELSE b

getTotalTokensFromBlock(block) ==
    block.tokenCounts.inputTokens + block.tokenCounts.outputTokens
    + block.tokenCounts.cacheCreationInputTokens + block.tokenCounts.cacheReadInputTokens

RECURSIVE MaxTokensLoop(_, _, _)
MaxTokensLoop(blocks, i, maxTokens) ==
    IF i > Len(blocks) THEN maxTokens
    ELSE LET block == blocks[i]
             totalTokens == getTotalTokensFromBlock(block)
         IN IF ~block.isGap /\ ~block.isActive /\ totalTokens > maxTokens
            THEN MaxTokensLoop(blocks, i + 1, totalTokens)
            ELSE MaxTokensLoop(blocks, i + 1, maxTokens)

\* the maximum taken over every non-gap block, the active one included
getMaxTokensFromBlocks_WithActive(blocks) ==
    LET totals == {getTotalTokensFromBlock(blocks[i]) :
                      i \in {j \in 1..Len(blocks) : ~blocks[j].isGap}}
        maxTokens == IF totals = {} THEN 0
                     ELSE CHOOSE m \in totals : \A t \in totals : t <= m
    IN IF maxTokens > 0 THEN maxTokens ELSE 7000

\* the history maximum falling back to the Custom tier's open default
getMaxTokensFromBlocks_OpenDefault(blocks) ==
    LET maxTokens == MaxTokensLoop(blocks, 1, 0)
    IN IF maxTokens > 0 THEN maxTokens ELSE 500000

getMaxTokensFromBlocks(blocks) ==
    LET maxTokens == MaxTokensLoop(blocks, 1, 0)
    IN IF maxTokens > 0 THEN maxTokens ELSE 7000

\* PLAN_DEFINITIONS of the plan catalog
PLAN_DEFINITIONS ==
    [p \in Plans |->
        CASE p = "Pro" ->
               [name |-> "Pro", displayName |-> "Claude Pro", monthlyPrice |-> 20,
                messagesPerWindow |-> 45, tokensPerMessage |-> 155, tokenLimit |-> 7000]
          [] p = "Max5" ->
               [name |-> "Max5", displayName |-> "Claude Max - Expanded", monthlyPrice |-> 100,
                messagesPerWindow |-> 225, tokensPerMessage |-> 155, tokenLimit |-> 35000]
          [] p = "Max20" ->
               [name |-> "Max20", displayName |-> "Claude Max - Maximum", monthlyPrice |-> 200,
                messagesPerWindow |-> 900, tokensPerMessage |-> 155, tokenLimit |-> 140000]
          [] OTHER ->
               [name |-> "Custom", displayName |-> "Custom Plan", monthlyPrice |-> 0,
                messagesPerWindow |-> 3000, tokensPerMessage |-> 155, tokenLimit |-> 500000]]

\* the lookup with the thresholds excluded from their tier
getPlanByTokenLimit_Exclusive(tokenLimit) ==
    IF tokenLimit < 7000 THEN PLAN_DEFINITIONS["Pro"]
    ELSE IF tokenLimit < 35000 THEN PLAN_DEFINITIONS["Max5"]
    ELSE IF tokenLimit < 140000 THEN PLAN_DEFINITIONS["Max20"]
    ELSE PLAN_DEFINITIONS["Custom"]

getPlanByTokenLimit(tokenLimit) ==
    IF tokenLimit <= 7000 THEN PLAN_DEFINITIONS["Pro"]
    ELSE IF tokenLimit <= 35000 THEN PLAN_DEFINITIONS["Max5"]
    ELSE IF tokenLimit <= 140000 THEN PLAN_DEFINITIONS["Max20"]
    ELSE PLAN_DEFINITIONS["Custom"]

detectPlanFromUsage(totalTokens) ==
    IF totalTokens <= 7000 THEN PLAN_DEFINITIONS["Pro"]
    ELSE IF totalTokens <= 35000 THEN PLAN_DEFINITIONS["Max5"]
    ELSE IF totalTokens <= 140000 THEN PLAN_DEFINITIONS["Max20"]
    ELSE PLAN_DEFINITIONS["Custom"]

\* CCUsageService.detectPlan
detectPlan(totalTokens) ==
    IF totalTokens <= 7000 THEN "Pro"
    ELSE IF totalTokens <= 35000 THEN "Max5"
    ELSE IF totalTokens <= 140000 THEN "Max20"
    ELSE "Custom"

getTokenLimit(plan) ==
    CASE plan = "Pro" -> 7000
      [] plan = "Max5" -> 35000
      [] plan = "Max20" -> 140000
      [] OTHER -> 500000

\* blocks.find((block) => block.isActive && !block.isGap)
findActiveBlock(blocks) ==
    LET hits == {i \in 1..Len(blocks) : blocks[i].isActive /\ ~blocks[i].isGap}
    IN IF hits = {} THEN Undefined
       ELSE blocks[CHOOSE i \in hits : \A j \in hits : i <= j]

\* a percentage as the exact fraction num/den; NaN is 0/0
NaN == [num |-> 0, den |-> 0]
Fraction(n, d) == [num |-> n, den |-> d]

\* the percentage without Math.min
percentageOf_Unclamped(tokensUsed, tokenLimit) ==
    IF tokenLimit = 0
    THEN (IF tokensUsed = 0 THEN NaN ELSE Fraction(100, 1))
    ELSE Fraction(tokensUsed * 100, tokenLimit)

\* Math.min(100, (tokensUsed / tokenLimit) * 100)
percentageOf(tokensUsed, tokenLimit) ==
    IF tokenLimit = 0
    THEN (IF tokensUsed = 0 THEN NaN ELSE Fraction(100, 1))
    ELSE IF tokensUsed * 100 >= 100 * tokenLimit
         THEN Fraction(100, 1)
         ELSE Fraction(tokensUsed * 100, tokenLimit)

\* the thresholds compared strictly
getUsageStatus_Strict(percentageUsed) ==
    IF percentageUsed.den > 0 /\ percentageUsed.num > 90 * percentageUsed.den THEN "critical"
    ELSE IF percentageUsed.den > 0 /\ percentageUsed.num > 70 * percentageUsed.den THEN "warning"
    ELSE "safe"

getUsageStatus(percentageUsed) ==
    IF percentageUsed.den > 0 /\ percentageUsed.num >= 90 * percentageUsed.den THEN "critical"
    ELSE IF percentageUsed.den > 0 /\ percentageUsed.num >= 70 * percentageUsed.den THEN "warning"
    ELSE "safe"

EmptyModels == [n \in {} |-> 0]

\* the reduce over every breakdown of the day, the synthetic ones included
ModelsOfBreakdowns_Unfiltered(mbs) ==
    LET kept == 1..Len(mbs)
        names == {mbs[i].modelName : i \in kept}
        last(n) == CHOOSE i \in kept : mbs[i].modelName = n
                       /\ \A j \in kept : mbs[j].modelName = n => j <= i
    IN [n \in names |->
           [tokens |-> mbs[last(n)].inputTokens + mbs[last(n)].outputTokens
                       + mbs[last(n)].cacheCreationTokens + mbs[last(n)].cacheReadTokens,
            cost |-> mbs[last(n)].cost]]

\* the .filter(not synthetic).reduce(...) over a day's modelBreakdowns: the last
\* breakdown of a name wins
ModelsOfBreakdowns(mbs) ==
    LET kept == {i \in 1..Len(mbs) : mbs[i].modelName # "<synthetic>"}
        names == {mbs[i].modelName : i \in kept}
        last(n) == CHOOSE i \in kept : mbs[i].modelName = n
                       /\ \A j \in kept : mbs[j].modelName = n => j <= i
    IN [n \in names |->
           [tokens |-> mbs[last(n)].inputTokens + mbs[last(n)].outputTokens
                       + mbs[last(n)].cacheCreationTokens + mbs[last(n)].cacheReadTokens,
            cost |-> mbs[last(n)].cost]]

\* dailyData.map((day) => ({...}))
ProcessDailyData(rows) ==
    [i \in 1..Len(rows) |->
        [date |-> rows[i].date,
         totalTokens |-> rows[i].inputTokens + rows[i].outputTokens
                         + rows[i].cacheCreationTokens + rows[i].cacheReadTokens,
         totalCost |-> rows[i].totalCost,
         models |-> ModelsOfBreakdowns(rows[i].modelBreakdowns)]]

getEmptyDailyUsage(t) ==
    [date |-> UTCDay(t), totalTokens |-> 0, totalCost |-> 0, models |-> EmptyModels]

\* the sum of f over the finite set S
SumOver(S, f(_)) ==
    LET RECURSIVE go(_)
        go(T) == IF T = {} THEN 0
                 ELSE LET x == CHOOSE y \in T : TRUE IN f(x) + go(T \ {x})
    IN go(S)

RECURSIVE SortedDays(_)
SortedDays(D) ==
    IF D = {} THEN <<>>
    ELSE LET d == CHOOSE x \in D : \A y \in D : x <= y
         IN <<d>> \o SortedDays(D \ {d})

\* block.models.filter((m) => m !== '<synthetic>')
RealModels(block) == SelectSeq(block.models, LAMBDA m : m # "<synthetic>")

\* The fold of the non-gap blocks into one DailyUsage per UTC start day, sorted
\* by date.  Costs are kept in a unit in which costUSD / realModels.length is whole.
convertBlocksToDailyUsage(blocks) ==
    LET used == {i \in 1..Len(blocks) : ~blocks[i].isGap}
        days == SortedDays({UTCDay(blocks[i].startTime.time) : i \in used})
        ofDay(d) == {i \in used : UTCDay(blocks[i].startTime.time) = d}
        names(d) == UNION {{RealModels(blocks[i])[k] : k \in 1..Len(RealModels(blocks[i]))} : i \in ofDay(d)}
        \* one addition per occurrence of the name in the block's model list
        share(i, n) ==
            LET real == RealModels(blocks[i])
                times == Cardinality({k \in 1..Len(real) : real[k] = n})
            IN [tokens |-> times * (getTotalTokensFromBlock(blocks[i]) \div Len(real)),
                cost |-> times * (blocks[i].costUSD \div Len(real))]
        withModel(d, n) ==
            {i \in ofDay(d) : \E k \in 1..Len(RealModels(blocks[i])) : RealModels(blocks[i])[k] = n}
    IN [j \in 1..Len(days) |->
           LET d == days[j]
               tok(i) == getTotalTokensFromBlock(blocks[i])
               cst(i) == blocks[i].costUSD
           IN [date |-> d,
               totalTokens |-> SumOver(ofDay(d), tok),
               totalCost |-> SumOver(ofDay(d), cst),
               models |-> [n \in names(d) |->
                   LET mt(i) == share(i, n).tokens
                       mc(i) == share(i, n).cost
                   IN [tokens |-> SumOver(withModel(d, n), mt),
                       cost |-> SumOver(withModel(d, n), mc)]]]]

Min2(a, b) == IF a <= b THEN a ELSE b

\* the term of a closed block measured to its nominal end, whatever its actual end
BurnTerm_NominalEnd(block, t) ==
    LET oneHourAgo == t - MsPerHour
        startTime == block.startTime.time
        sessionEnd == IF block.isActive THEN t ELSE block.endTime.time
        sessionStartInHour == Max2(startTime, oneHourAgo)
        sessionEndInHour == Min2(sessionEnd, t)
    IN IF block.isGap \/ sessionEnd < oneHourAgo
          \/ sessionEndInHour <= sessionStartInHour
          \/ sessionEnd - startTime <= 0
       THEN <<>>
       ELSE <<[tokens |-> getTotalTokensFromBlock(block),
               hourDuration |-> sessionEndInHour - sessionStartInHour,
               totalSessionDuration |-> sessionEnd - startTime]>>

\* what one block adds to totalTokens in calculateHourlyBurnRate at time t:
\* blockTotalTokens * (hourDuration / totalSessionDuration), kept as its three
\* factors (the durations in ms, whose ratio is that of the minutes); <<>> when
\* the loop skips the block
BurnTerm(block, t) ==
    LET oneHourAgo == t - MsPerHour
        startTime == block.startTime.time
        sessionEnd == IF block.isActive THEN t
                      ELSE IF block.actualEndTime # Undefined THEN block.actualEndTime.time
                      ELSE block.endTime.time
        sessionStartInHour == Max2(startTime, oneHourAgo)
        sessionEndInHour == Min2(sessionEnd, t)
    IN IF block.isGap \/ sessionEnd < oneHourAgo
          \/ sessionEndInHour <= sessionStartInHour
          \/ sessionEnd - startTime <= 0
       THEN <<>>
       ELSE <<[tokens |-> getTotalTokensFromBlock(block),
               hourDuration |-> sessionEndInHour - sessionStartInHour,
               totalSessionDuration |-> sessionEnd - startTime]>>

RECURSIVE BurnTerms(_, _, _)
BurnTerms(blocks, i, t) ==
    IF i > Len(blocks) THEN <<>>
    ELSE BurnTerm(blocks[i], t) \o BurnTerms(blocks, i + 1, t)

\* calculateHourlyBurnRate(blocks) at time t, tokens per minute: the sum of the
\* terms, added in list order, divided by 60
calculateHourlyBurnRate(blocks, t) ==
    [sumOf |-> BurnTerms(blocks, 1, t), dividedBy |-> 60]

\* the 24h and 7d averages with gap blocks counted
calculateVelocityFromBlocks_CountingGaps(blocks, t) ==
    LET tok(i) == getTotalTokensFromBlock(blocks[i])
        since(ms) == {i \in 1..Len(blocks) : blocks[i].startTime.time >= t - ms}
    IN [average24h |-> Fraction(SumOver(since(MsPerDay), tok), 24),
        average7d |-> Fraction(SumOver(since(7 * MsPerDay), tok), 7 * 24)]

\* calculateVelocityFromBlocks(blocks, burnRate) at time t: the two averages,
\* tokens per hour
calculateVelocityFromBlocks(blocks, t) ==
    LET tok(i) == getTotalTokensFromBlock(blocks[i])
        since(ms) == {i \in 1..Len(blocks) :
                         ~blocks[i].isGap /\ blocks[i].startTime.time >= t - ms}
    IN [average24h |-> Fraction(SumOver(since(MsPerDay), tok), 24),
        average7d |-> Fraction(SumOver(since(7 * MsPerDay), tok), 7 * 24)]

Abs(x) == IF x < 0 THEN -x ELSE x

\* natural numbers of any size, as their digits in base 2^15, lowest first,
\* without leading zero digits (TLC's integers have 32 bits, a double's
\* significand 53)
LimbBits == 3 * 5
LimbBase == 2 ^ LimbBits

RECURSIVE BigOfNat(_)
BigOfNat(n) == IF n = 0 THEN <<>> ELSE <<n % LimbBase>> \o BigOfNat(n \div LimbBase)

RECURSIVE BigNorm(_)
BigNorm(a) ==
    IF a # <<>> /\ a[Len(a)] = 0 THEN BigNorm(SubSeq(a, 1, Len(a) - 1)) ELSE a

Limb(a, i) == IF i <= Len(a) THEN a[i] ELSE 0

Zeros(n) == [i \in 1..n |-> 0]

RECURSIVE BigAddFrom(_, _, _, _)
BigAddFrom(a, b, i, carry) ==
    IF i > Len(a) /\ i > Len(b) THEN (IF carry = 0 THEN <<>> ELSE <<carry>>)
    ELSE LET t == Limb(a, i) + Limb(b, i) + carry
         IN <<t % LimbBase>> \o BigAddFrom(a, b, i + 1, t \div LimbBase)

BigAdd(a, b) == BigNorm(BigAddFrom(a, b, 1, 0))

\* a - b, for a >= b
RECURSIVE BigSubFrom(_, _, _, _)
BigSubFrom(a, b, i, borrow) ==
    IF i > Len(a) THEN <<>>
    ELSE LET t == a[i] - Limb(b, i) - borrow
         IN <<IF t < 0 THEN t + LimbBase ELSE t>>
                \o BigSubFrom(a, b, i + 1, IF t < 0 THEN 1 ELSE 0)

BigSub(a, b) == BigNorm(BigSubFrom(a, b, 1, 0))

RECURSIVE BigCmpFrom(_, _, _)
BigCmpFrom(a, b, i) ==
    IF i = 0 THEN 0
    ELSE IF a[i] # b[i] THEN (IF a[i] < b[i] THEN -1 ELSE 1)
    ELSE BigCmpFrom(a, b, i - 1)

\* -1, 0 or 1 as a is below, equal to or above b
BigCmp(a, b) ==
    IF Len(a) # Len(b) THEN (IF Len(a) < Len(b) THEN -1 ELSE 1)
    ELSE BigCmpFrom(a, b, Len(a))

\* a * k for a digit k
RECURSIVE BigMulSmallFrom(_, _, _, _)
BigMulSmallFrom(a, k, i, carry) ==
    IF i > Len(a) THEN (IF carry = 0 THEN <<>> ELSE <<carry>>)
    ELSE LET t == a[i] * k + carry
         IN <<t % LimbBase>> \o BigMulSmallFrom(a, k, i + 1, t \div LimbBase)

BigMulSmall(a, k) == IF k = 0 THEN <<>> ELSE BigMulSmallFrom(a, k, 1, 0)

RECURSIVE BigMulFrom(_, _, _)
BigMulFrom(a, b, i) ==
    IF i > Len(b) THEN <<>>
    ELSE BigAdd(Zeros(i - 1) \o BigMulSmall(a, b[i]), BigMulFrom(a, b, i + 1))

BigMul(a, b) == BigMulFrom(a, b, 1)

\* floor(a / k) for 0 < k < 2^15, from digit i down, rem carried in
RECURSIVE BigDivSmallFrom(_, _, _, _)
BigDivSmallFrom(a, k, i, rem) ==
    IF i = 0 THEN <<>>
    ELSE LET t == rem * LimbBase + a[i]
         IN BigDivSmallFrom(a, k, i - 1, t % k) \o <<t \div k>>

BigDivSmall(a, k) == BigNorm(BigDivSmallFrom(a, k, Len(a), 0))

\* a * 2^n and floor(a / 2^n)
BigShl(a, n) ==
    IF a = <<>> THEN <<>>
    ELSE Zeros(n \div LimbBits) \o BigMulSmall(a, 2 ^ (n % LimbBits))

BigShr(a, n) ==
    IF n \div LimbBits >= Len(a) THEN <<>>
    ELSE BigDivSmall(SubSeq(a, n \div LimbBits + 1, Len(a)), 2 ^ (n % LimbBits))

RECURSIVE SmallBitLen(_)
SmallBitLen(n) == IF n = 0 THEN 0 ELSE 1 + SmallBitLen(n \div 2)

\* the number of binary digits of a
BitLen(a) ==
    IF a = <<>> THEN 0 ELSE LimbBits * (Len(a) - 1) + SmallBitLen(a[Len(a)])

\* the digit floor(r / d), for r < d * 2^15 and d's highest digit at least 2^14:
\* the estimate from the highest digits, lowered while d times it is above r
RECURSIVE DigitFrom(_, _, _)
DigitFrom(r, d, g) ==
    IF BigCmp(BigMulSmall(d, g), r) > 0 THEN DigitFrom(r, d, g - 1) ELSE g

Digit(r, d) ==
    DigitFrom(r, d, Min2(LimbBase - 1,
                         (Limb(r, Len(d) + 1) * LimbBase + Limb(r, Len(d))) \div d[Len(d)]))

\* long division, one digit of n at a time from digit i down
RECURSIVE BigDivModFrom(_, _, _, _, _)
BigDivModFrom(n, d, i, q, r) ==
    IF i = 0 THEN [quot |-> BigNorm(q), rem |-> r]
    ELSE LET r2 == BigNorm(<<n[i]>> \o r)
             g == Digit(r2, d)
         IN BigDivModFrom(n, d, i - 1, <<g>> \o q, BigSub(r2, BigMulSmall(d, g)))

\* floor(n / d) and n mod d, for d > 0 (both scaled first so that d's highest
\* digit is at least 2^14)
BigDivMod(n, d) ==
    LET k == LimbBits - SmallBitLen(d[Len(d)])
        n2 == BigShl(n, k)
        dm == BigDivModFrom(n2, BigShl(d, k), Len(n2), <<>>, <<>>)
    IN [quot |-> dm.quot, rem |-> BigShr(dm.rem, k)]

RECURSIVE SmallTrailingZeros(_)
SmallTrailingZeros(n) == IF n % 2 = 1 THEN 0 ELSE 1 + SmallTrailingZeros(n \div 2)

\* the number of zero binary digits at the low end of a > 0
RECURSIVE TrailingZeros(_)
TrailingZeros(a) ==
    IF a[1] = 0 THEN LimbBits + TrailingZeros(Tail(a)) ELSE SmallTrailingZeros(a[1])

\* a JavaScript number (an IEEE 754 double): (-1)^neg * mant * 2^exp with mant
\* odd and below 2^53, or zero.  Infinities, NaN, subnormals and the sign of
\* zero are left out: no computation here comes near them.
MantissaBits == 52 + 1

DZero == [neg |-> FALSE, mant |-> <<>>, exp |-> 0]

Dbl(neg, m, e) ==
    IF m = <<>> THEN DZero
    ELSE LET z == TrailingZeros(m)
         IN [neg |-> neg, mant |-> BigShr(m, z), exp |-> e + z]

\* the double nearest to a value of magnitude (m + f) * 2^e, 0 <= f < 1, ties
\* to the even significand; sticky says f > 0 (then m has more than 54 digits)
DRound(neg, m, e, sticky) ==
    LET k == BitLen(m) - MantissaBits
    IN IF k <= 0 THEN Dbl(neg, m, e)
       ELSE LET q == BigShr(m, k)
                r == BigSub(m, BigShl(q, k))
                c == BigCmp(r, BigShl(<<1>>, k - 1))
                up == c > 0 \/ (c = 0 /\ (sticky \/ q[1] % 2 = 1))
            IN Dbl(neg, IF up THEN BigAdd(q, <<1>>) ELSE q, e + k)

\* an integer of at most 31 bits as a number
DblOfInt(n) == Dbl(n < 0, BigOfNat(Abs(n)), 0)

DSign(x) == IF x.mant = <<>> THEN 0 ELSE IF x.neg THEN -1 ELSE 1

DNeg(x) == IF x.mant = <<>> THEN x ELSE [x EXCEPT !.neg = ~x.neg]

\* Math.abs(x)
DAbs(x) == [x EXCEPT !.neg = FALSE]

\* x * y
DMul(x, y) ==
    IF x.mant = <<>> \/ y.mant = <<>> THEN DZero
    ELSE DRound(x.neg # y.neg, BigMul(x.mant, y.mant), x.exp + y.exp, FALSE)

\* x / y, for y other than 0
DDiv(x, y) ==
    IF x.mant = <<>> THEN DZero
    ELSE LET s == Max2(0, MantissaBits + 3 + BitLen(y.mant) - BitLen(x.mant))
             d == BigDivMod(BigShl(x.mant, s), y.mant)
         IN DRound(x.neg # y.neg, d.quot, x.exp - y.exp - s, d.rem # <<>>)

\* x + y
DAdd(x, y) ==
    IF x.mant = <<>> THEN y
    ELSE IF y.mant = <<>> THEN x
    ELSE LET e == Min2(x.exp, y.exp)
             mx == BigShl(x.mant, x.exp - e)
             my == BigShl(y.mant, y.exp - e)
             c == BigCmp(mx, my)
         IN IF x.neg = y.neg THEN DRound(x.neg, BigAdd(mx, my), e, FALSE)
            ELSE IF c = 0 THEN DZero
            ELSE IF c > 0 THEN DRound(x.neg, BigSub(mx, my), e, FALSE)
            ELSE DRound(y.neg, BigSub(my, mx), e, FALSE)

\* x - y
DSub(x, y) == DAdd(x, DNeg(y))

\* x > y (the rounded difference has the sign of the exact one)
DGreater(x, y) == DSign(DSub(x, y)) > 0

\* Math.round(x): floor(x + 0.5), computed exactly
MathRound(x) ==
    IF x.exp >= 0 THEN x
    ELSE LET half == BigShl(<<1>>, -x.exp - 1)
             one == BigShl(<<1>>, -x.exp)
         IN IF ~x.neg THEN Dbl(FALSE, BigShr(BigAdd(x.mant, half), -x.exp), 0)
            ELSE IF BigCmp(half, x.mant) >= 0 THEN DZero
            ELSE Dbl(TRUE, BigShr(BigAdd(BigSub(x.mant, half), BigSub(one, <<1>>)),
                                  -x.exp), 0)

\* the number a fraction num/den stands for: num / den
NumberOf(fraction) == DDiv(DblOfInt(fraction.num), DblOfInt(fraction.den))

\* blockTotalTokens * (hourDuration / totalSessionDuration), the two durations
\* being milliseconds / (1000 * 60)
TermValue(term) ==
    DMul(DblOfInt(term.tokens),
         DDiv(DDiv(DblOfInt(term.hourDuration), DblOfInt(MsPerMinute)),
              DDiv(DblOfInt(term.totalSessionDuration), DblOfInt(MsPerMinute))))

\* totalTokens after the first i terms: totalTokens += tokensInHour, from 0
RECURSIVE SumTerms(_, _)
SumTerms(terms, i) ==
    IF i = 0 THEN DZero
    ELSE DAdd(SumTerms(terms, i - 1), TermValue(terms[i]))

\* the number calculateHourlyBurnRate returns: totalTokens / 60
BurnRateValue(burnRate) ==
    DDiv(SumTerms(burnRate.sumOf, Len(burnRate.sumOf)), DblOfInt(burnRate.dividedBy))

\* currentBurnRate * 60, tokens per hour
TokensPerHour(burnRate) == DMul(BurnRateValue(burnRate), DblOfInt(60))

\* Math.round(x * 10) / 10
RoundTenths(x) == DDiv(MathRound(DMul(x, DblOfInt(10))), DblOfInt(10))

\* the trend with the 15 percent mark itself counted as a change
TrendAnalysis_AtFifteen(current, average24h) ==
    LET Analysis(trendPercent, trend) ==
            [current |-> current,
             trend |-> trend,
             trendPercent |-> RoundTenths(trendPercent),
             isAccelerating |-> trend = "increasing" /\ DGreater(trendPercent, DblOfInt(20))]
        Classified(trendPercent) ==
            Analysis(trendPercent,
                     IF ~DGreater(DblOfInt(15), DAbs(trendPercent))
                     THEN (IF DSign(trendPercent) > 0 THEN "increasing" ELSE "decreasing")
                     ELSE "stable")
    IN Classified(IF DSign(average24h) > 0
                  THEN DMul(DDiv(DSub(current, average24h), average24h), DblOfInt(100))
                  ELSE DZero)

\* the trend analysis of calculateVelocityFromBlocks: current is
\* currentBurnRate * 60 and average24h is tokens24h / 24, both numbers
TrendAnalysis(current, average24h) ==
    LET Analysis(trendPercent, trend) ==
            [current |-> current,
             trend |-> trend,
             trendPercent |-> RoundTenths(trendPercent),
             isAccelerating |-> trend = "increasing" /\ DGreater(trendPercent, DblOfInt(20))]
        Classified(trendPercent) ==
            Analysis(trendPercent,
                     IF DGreater(DAbs(trendPercent), DblOfInt(15))
                     THEN (IF DSign(trendPercent) > 0 THEN "increasing" ELSE "decreasing")
                     ELSE "stable")
    IN Classified(IF DSign(average24h) > 0
                  THEN DMul(DDiv(DSub(current, average24h), average24h), DblOfInt(100))
                  ELSE DZero)

\* calculatePredictionInfo(tokensUsed, tokenLimit, velocity, resetInfo) at time
\* t, reading the velocity's current rate, 24h average and (rounded) trend
\* percent: the prediction, or the RangeError of the depletion time.  The
\* depletion time is written as the time value of its Date; onTrack is
\* ResetTimeService.isOnTrackForReset's answer.  The largest time value of a
\* Date is 8.64e15 ms (100 000 000 days): new Date(v) is an invalid Date for a
\* v beyond it and toISOString() of an invalid Date throws a RangeError; for a
\* v within it new Date(v) keeps the integer part of v.
calculatePredictionInfo(tokensUsed, tokenLimit, velocity, t, onTrack) ==
    LET Dated(confidence, hoursRemaining, depletion) ==
            IF DGreater(DAbs(depletion), DMul(DblOfInt(MsPerDay), DblOfInt(100000000)))
            THEN [thrown |-> TRUE, error |-> "RangeError: Invalid time value"]
            ELSE [thrown |-> FALSE,
                  depletionTime |->
                      [time |-> IF depletion.exp >= 0 THEN depletion
                                ELSE Dbl(depletion.neg,
                                         BigShr(depletion.mant, -depletion.exp), 0)],
                  confidence |-> confidence,
                  daysRemaining |-> RoundTenths(DDiv(hoursRemaining, DblOfInt(24))),
                  onTrackForReset |-> onTrack]
        Timed(confidence, hoursRemaining) ==
            Dated(confidence, hoursRemaining,
                  DAdd(DblOfInt(t),
                       DMul(DMul(DMul(hoursRemaining, DblOfInt(60)), DblOfInt(60)),
                            DblOfInt(1000))))
        Rated(confidence) ==
            IF DSign(velocity.current) <= 0
            THEN [thrown |-> FALSE, depletionTime |-> Null, confidence |-> confidence,
                  daysRemaining |-> DZero, onTrackForReset |-> onTrack]
            ELSE Timed(confidence,
                       DDiv(DblOfInt(Max2(0, tokenLimit - tokensUsed)), velocity.current))
    IN Rated(IF DSign(velocity.current) > 0 /\ DSign(velocity.average24h) > 0
             THEN (IF DGreater(DAbs(velocity.trendPercent), DblOfInt(50))
                   THEN Min2(95, 50 + 30) - 20 ELSE Min2(95, 50 + 30))
             ELSE 50)

\* processedDailyData.find((d) => d.date === day) || getEmptyDailyUsage()
TodayOf(processed, day, t) ==
    LET hits == {i \in 1..Len(processed) : processed[i].date = day}
    IN IF hits = {} THEN getEmptyDailyUsage(t)
       ELSE processed[CHOOSE i \in hits : \A j \in hits : i <= j]

\* processedDailyData.filter((d) => new Date(d.date) >= <t minus `days` days>):
\* d.date * MsPerDay >= t - days * MsPerDay, compared in whole days
Since(processed, days, t) ==
    SelectSeq(processed, LAMBDA d : d.date + days >= -((-t) \div MsPerDay))

\* the time until the reset without Math.max
getTimeUntilActualReset_Signed(activeBlock, t) ==
    IF activeBlock = Null
    THEN [nextResetTime |-> Null, timeUntilReset |-> 0,
          formattedTimeRemaining |-> "No active session"]
    ELSE [nextResetTime |-> activeBlock.endTime,
          timeUntilReset |-> activeBlock.endTime.time - t,
          formattedTimeRemaining |->
              IF activeBlock.endTime.time - t <= 0 THEN "Reset available"
              ELSE "Less than 1 minute left"]

\* getActualNextResetTime and getTimeUntilActualReset at time t
getTimeUntilActualReset(activeBlock, t) ==
    IF activeBlock = Null
    THEN [nextResetTime |-> Null, timeUntilReset |-> 0,
          formattedTimeRemaining |-> "No active session"]
    ELSE LET actualResetTime == activeBlock.endTime
             timeUntilReset == Max2(0, actualResetTime.time - t)
             hours == timeUntilReset \div MsPerHour
             minutes == (timeUntilReset % MsPerHour) \div MsPerMinute
         IN [nextResetTime |-> actualResetTime,
             timeUntilReset |-> timeUntilReset,
             formattedTimeRemaining |->
                 IF timeUntilReset <= 0 THEN "Reset available"
                 ELSE IF hours > 0
                      THEN ToString(hours) \o " hours " \o ToString(minutes) \o " minutes left"
                 ELSE IF minutes > 0 THEN ToString(minutes) \o " minutes left"
                 ELSE "Less than 1 minute left"]

\* getDefaultStats(dailyData) at time t, reading currentPlan and currentActiveBlock
getDefaultStats(dailyData, plan, activeBlock, t) ==
    LET processedDailyData ==
            IF dailyData.defined /\ Len(dailyData.value) > 0
            THEN ProcessDailyData(dailyData.value)
            ELSE <<>>
    IN [today |-> TodayOf(processedDailyData, UTCDay(t), t),
        thisWeek |-> Since(processedDailyData, 7, t),
        thisMonth |-> Since(processedDailyData, 30, t),
        burnRate |-> [sumOf |-> <<>>, dividedBy |-> 60],
        velocity |-> [average24h |-> Fraction(0, 24), average7d |-> Fraction(0, 7 * 24)],
        prediction |-> [depletionTime |-> Null, confidence |-> 0,
                        daysRemaining |-> DZero, onTrackForReset |-> TRUE],
        actualResetInfo |-> getTimeUntilActualReset(activeBlock, t),
        currentPlan |-> plan,
        tokenLimit |-> getTokenLimit(plan),
        tokensUsed |-> 0,
        tokensRemaining |-> getTokenLimit(plan),
        percentageUsed |-> Fraction(0, 1)]

\* the remainder without Math.max
tokensRemainingOf_Signed(tokenLimit, tokensUsed) == tokenLimit - tokensUsed

\* getMenuBarData(), given the snapshot its getUsageStats call resolved with
getMenuBarData(stats) ==
    [tokensUsed |-> stats.tokensUsed,
     tokenLimit |-> stats.tokenLimit,
     percentageUsed |-> stats.percentageUsed,
     status |-> getUsageStatus(stats.percentageUsed),
     cost |-> stats.today.totalCost]

\* Math.max(0, tokenLimit - tokensUsed)
tokensRemainingOf(tokenLimit, tokensUsed) == Max2(0, tokenLimit - tokensUsed)

\* whether the limit is auto-detected from the history
needsDetection(plan, tokensUsed) ==
    plan = "Custom" \/ (plan = "Pro" /\ tokensUsed > 7000)

\* the velocity of line 207 in numbers: calculateVelocityFromBlocks(blocks,
\* burnRate) at time t with burnRate = calculateHourlyBurnRate(blocks)
VelocityNumbers(blocks, t) ==
    LET Numbers(analysis) ==
            [current |-> analysis.current,
             average24h |-> NumberOf(calculateVelocityFromBlocks(blocks, t).average24h),
             average7d |-> NumberOf(calculateVelocityFromBlocks(blocks, t).average7d),
             trend |-> analysis.trend,
             trendPercent |-> analysis.trendPercent,
             isAccelerating |-> analysis.isAccelerating]
    IN Numbers(TrendAnalysis(TokensPerHour(calculateHourlyBurnRate(blocks, t)),
                             NumberOf(calculateVelocityFromBlocks(blocks, t).average24h)))

\* the block lists with an active block and the times at which the
\* specifications run parseBlocksData: the polled lists and the throwing list
\* at every value of the clock (the sums of tick steps up to MaxNow), the
\* lists of up to two blocks at time 0
VelocityRuns ==
    {[blocks |-> r.value, t |-> t] :
        r \in {x \in ThrowingBlockResults \cup ConcurrentBlockResults :
                  findActiveBlock(x.value) # Undefined},
        t \in {c \in {a * 1000 + b * 1999 : a \in 0..MaxSeconds, b \in 0..MaxSeconds} :
                  c <= MaxNow}}
    \cup {[blocks |-> bs, t |-> 0] :
            bs \in {x \in SeqsUpTo(BlockSet, 2) \cup {PromotedTinyRate} :
                       findActiveBlock(x) # Undefined}}

RECURSIVE VelocityOf(_, _, _)

\* VelocityNumbers over these runs, computed once
VelocityTable == [run \in VelocityRuns |-> VelocityOf(run.blocks, run.t, FALSE)]

\* VelocityNumbers(blocks, t), read from VelocityTable where it is tabulated
VelocityOf(blocks, t, tabulated) ==
    IF tabulated /\ [blocks |-> blocks, t |-> t] \in DOMAIN VelocityTable
    THEN VelocityTable[[blocks |-> blocks, t |-> t]]
    ELSE VelocityNumbers(blocks, t)

RECURSIVE SessionPrediction(_, _, _, _, _)

\* SessionPrediction over these runs with each limit parseBlocksData can
\* settle (a plan's, or the history's largest block), computed once
PredictionTable ==
    [run \in UNION {{[blocks |-> v.blocks, tokenLimit |-> limit, t |-> v.t,
                      onTrack |-> onTrack] :
                        limit \in {getTokenLimit(plan) : plan \in Plans}
                                  \cup {getMaxTokensFromBlocks(v.blocks)},
                        onTrack \in BOOLEAN} : v \in VelocityRuns}
       |-> SessionPrediction(run.blocks, run.tokenLimit, run.t, run.onTrack, FALSE)]

\* lines 204-209 for a block list with an active block: the prediction, or the
\* error thrown, under the limit parseBlocksData settled; read from
\* PredictionTable where it is tabulated
SessionPrediction(blocks, tokenLimit, t, onTrack, tabulated) ==
    IF tabulated /\ [blocks |-> blocks, tokenLimit |-> tokenLimit, t |-> t,
                     onTrack |-> onTrack] \in DOMAIN PredictionTable
    THEN PredictionTable[[blocks |-> blocks, tokenLimit |-> tokenLimit, t |-> t,
                          onTrack |-> onTrack]]
    ELSE calculatePredictionInfo(getTotalTokensFromBlock(findActiveBlock(blocks)),
                                 tokenLimit, VelocityOf(blocks, t, TRUE), t, onTrack)

\* parseBlocksData from the burn rate on, for the active block found and the
\* plan and limit settled: the snapshot, or the error calculatePredictionInfo
\* throws, in which case no snapshot is built; either way with the engine
\* fields written before that point
parseActiveSession(blocks, dailyData, activeBlock, newPlan, tokenLimit, t, onTrack) ==
    LET tokensUsed == getTotalTokensFromBlock(activeBlock)
        processedDailyData ==
            IF dailyData.defined THEN ProcessDailyData(dailyData.value)
            ELSE convertBlocksToDailyUsage(blocks)
        Session(prediction) ==
            IF prediction.thrown
            THEN [thrown |-> TRUE, error |-> prediction.error,
                  currentPlan |-> newPlan, detectedTokenLimit |-> tokenLimit,
                  currentActiveBlock |-> activeBlock]
            ELSE [thrown |-> FALSE,
                  stats |->
                      [today |-> TodayOf(processedDailyData, toISOStringLocal(t), t),
                       thisWeek |-> Since(processedDailyData, 7, t),
                       thisMonth |-> Since(processedDailyData, 30, t),
                       burnRate |-> calculateHourlyBurnRate(blocks, t),
                       velocity |-> calculateVelocityFromBlocks(blocks, t),
                       prediction |-> [depletionTime |-> prediction.depletionTime,
                                       confidence |-> prediction.confidence,
                                       daysRemaining |-> prediction.daysRemaining,
                                       onTrackForReset |-> prediction.onTrackForReset],
                       actualResetInfo |-> getTimeUntilActualReset(activeBlock, t),
                       currentPlan |-> newPlan,
                       tokenLimit |-> tokenLimit,
                       tokensUsed |-> tokensUsed,
                       tokensRemaining |-> tokensRemainingOf(tokenLimit, tokensUsed),
                       percentageUsed |-> percentageOf(tokensUsed, tokenLimit)],
                  currentPlan |-> newPlan, detectedTokenLimit |-> tokenLimit,
                  currentActiveBlock |-> activeBlock]
    IN Session(SessionPrediction(blocks, tokenLimit, t, onTrack, TRUE))

\* parseBlocksData promoting to Custom from any plan once usage exceeds 7000
parseBlocksData_PromoteAny(blocks, dailyData, plan, limit, oldActive, t, onTrack) ==
    LET activeBlock == findActiveBlock(blocks)
    IN IF activeBlock = Undefined
       THEN [thrown |-> FALSE,
             stats |-> getDefaultStats(dailyData, plan, Null, t),
             currentPlan |-> plan, detectedTokenLimit |-> limit,
             currentActiveBlock |-> Null]
       ELSE LET tokensUsed == getTotalTokensFromBlock(activeBlock)
                detect == needsDetection(plan, tokensUsed)
                tokenLimit == IF detect THEN getMaxTokensFromBlocks(blocks)
                              ELSE getTokenLimit(plan)
                newPlan == IF tokensUsed > 7000 THEN "Custom" ELSE plan
            IN parseActiveSession(blocks, dailyData, activeBlock, newPlan, tokenLimit,
                                  t, onTrack)

\* parseBlocksData(blocks, dailyData) at time t: the snapshot, or the error it
\* throws, and the engine fields it leaves behind either way.  onTrack is
\* ResetTimeService.isOnTrackForReset's answer.
parseBlocksData(blocks, dailyData, plan, limit, oldActive, t, onTrack) ==
    LET activeBlock == findActiveBlock(blocks)
    IN IF activeBlock = Undefined
       THEN [thrown |-> FALSE,
             stats |-> getDefaultStats(dailyData, plan, Null, t),
             currentPlan |-> plan, detectedTokenLimit |-> limit,
             currentActiveBlock |-> Null]
       ELSE LET tokensUsed == getTotalTokensFromBlock(activeBlock)
                detect == needsDetection(plan, tokensUsed)
                tokenLimit == IF detect THEN getMaxTokensFromBlocks(blocks)
                              ELSE getTokenLimit(plan)
                newPlan == IF detect /\ tokensUsed > 7000 /\ plan = "Pro"
                           THEN "Custom" ELSE plan
            IN parseActiveSession(blocks, dailyData, activeBlock, newPlan, tokenLimit,
                                  t, onTrack)

----------------------------------------------------------------------------
(* The engine as a state machine *)

Idle == [pc |-> "idle", site |-> "none", now |-> 0, blocksP |-> "none",
         dailyP |-> "none", afterConfig |-> FALSE]
NoReturn == [op |-> "none"]

\* an invocation of the 'refresh-data' handler at rest: not invoked, no loader
\* fetch issued for it, awaiting no call
RefreshIdle == [pc |-> "idle", fetched |-> FALSE, slot |-> 0]

\* what updateConfiguration can be given: the plan field absent, "auto" or a tier
\* (the whole configuration goes to the ResetTimeService)
ConfigInputs ==
    {[plan |-> p, timezone |-> Undefined, resetHour |-> Undefined,
      customTokenLimit |-> Undefined] :
        p \in {Undefined} \cup {Defined(q) : q \in Plans \cup {"auto"}}}

\* configurations that carry a timezone and a reset hour, valid or not, and
\* invalid ones that carry a plan as well
ScheduleConfigInputs ==
    {[plan |-> Undefined, timezone |-> z, resetHour |-> h, customTokenLimit |-> Undefined] :
        z \in {Defined("UTC"), Defined("Mars/Olympus")},
        h \in {Defined(23), Defined(24)}}
    \cup {[plan |-> Defined("Max20"), timezone |-> Defined("Mars/Olympus"),
           resetHour |-> Undefined, customTokenLimit |-> Undefined],
          [plan |-> Defined("Max20"), timezone |-> Undefined,
           resetHour |-> Defined(24), customTokenLimit |-> Undefined]}

\* custom token limits the settings panel can send: one below every history
\* total, one above
CustomTokenLimits == {Defined(1000), Defined(200000)}

\* configurations that carry a custom token limit, with the plan left alone or
\* set to Custom
CustomLimitConfigInputs ==
    {[plan |-> p, timezone |-> Undefined, resetHour |-> Undefined, customTokenLimit |-> l] :
        p \in {Undefined, Defined("Custom")},
        l \in CustomTokenLimits}

\* the timezone and reset hour the settings panel shows before any is chosen,
\* no custom limit given
DefaultResetConfig ==
    [timezone |-> "America/Los_Angeles", resetHour |-> 0, customTokenLimit |-> Undefined]

\* the timezones the settings panel offers
ValidTimezones ==
    {"America/Los_Angeles", "America/Denver", "America/Chicago", "America/New_York",
     "Europe/London", "Europe/Paris", "Asia/Tokyo", "Asia/Shanghai",
     "Australia/Sydney", "UTC"}

\* a validation that does not look at the reset hour
ResetConfigValid_HourUnchecked(config) ==
    config.timezone.defined => config.timezone.value \in ValidTimezones

\* ResetTimeService.updateConfiguration: the validation at the configuration
\* boundary, of the timezone and of the reset hour (0..23, the hours the
\* settings panel offers)
ResetConfigValid(config) ==
    /\ config.timezone.defined => config.timezone.value \in ValidTimezones
    /\ config.resetHour.defined => config.resetHour.value \in 0..23

\* ResetTimeService.updateConfiguration: the Error an invalid configuration is
\* rejected with; its message is kept as the field it rejects and the value
\* given for it
ResetConfigError(config) ==
    [isError |-> TRUE,
     message |-> IF config.timezone.defined /\ config.timezone.value \notin ValidTimezones
                 THEN [field |-> "timezone", timezone |-> config.timezone.value]
                 ELSE [field |-> "resetHour", resetHour |-> config.resetHour.value]]

\* ResetTimeService.updateConfiguration: the service is handed the whole
\* configuration; the timezone, reset hour and custom limit given replace the
\* held ones
MergeResetConfig(held, config) ==
    [timezone |-> IF config.timezone.defined THEN config.timezone.value ELSE held.timezone,
     resetHour |-> IF config.resetHour.defined THEN config.resetHour.value
                   ELSE held.resetHour,
     customTokenLimit |-> IF config.customTokenLimit.defined THEN config.customTokenLimit
                          ELSE held.customTokenLimit]

\* updateConfiguration leaving through the reset service's exception
ConfigRejected(config) ==
    returned' = [op |-> "updateConfiguration", settled |-> "rejected",
                 config |-> config, thrown |-> ResetConfigError(config)]

\* ipcMain.handle('update-preferences'): what the handler returns to the
\* renderer, given what updateConfiguration threw (Null: nothing)
UpdatePreferencesReply(thrown) ==
    IF thrown = Null THEN [success |-> TRUE]
    ELSE [success |-> FALSE,
          error |-> IF thrown.isError THEN thrown.message ELSE "Unknown error"]

InFlight == {s \in CallSlots : calls[s].pc = "awaiting"}

\* the call slots not in use
FreeSlots == {s \in CallSlots : calls[s].pc = "idle"}

Init ==
    /\ now = 0
    /\ cachedStats = Null
    /\ lastUpdate = 0
    /\ currentPlan = "Pro"
    /\ detectedTokenLimit = 7000
    /\ currentActiveBlock = Null
    /\ historicalBlocks = <<>>
    /\ resetConfig = DefaultResetConfig
    /\ calls = [s \in CallSlots |-> Idle]
    /\ returned = NoReturn
    /\ cacheBegan = 0
    /\ cfgSinceCache = FALSE
    /\ cfgPending = FALSE
    /\ cfgInFlight = FALSE
    /\ lastReturn = NoReturn
    /\ refresh = [h \in CallSlots |-> RefreshIdle]
    /\ lastConfig = Undefined

\* time passes between two turns of the event loop
Tick(step) ==
    /\ now + step <= MaxNow
    /\ now' = now + step
    /\ returned' = NoReturn
    /\ UNCHANGED <<engine, calls, history>>

\* the plan updateConfiguration leaves behind
PlanAfter(config) ==
    IF config.plan.defined
    THEN (IF config.plan.value = "auto" THEN "Custom" ELSE config.plan.value)
    ELSE currentPlan

\* updateConfiguration storing the plan field as given, "auto" included
UpdateConfiguration_AutoKept(config) ==
    IF ~ResetConfigValid(config)
    THEN /\ ConfigRejected(config)
         /\ UNCHANGED <<now, engine, calls, history>>
    ELSE /\ resetConfig' = MergeResetConfig(resetConfig, config)
         /\ currentPlan' = IF config.plan.defined THEN config.plan.value ELSE currentPlan
         /\ cachedStats' = Null
         /\ returned' = NoReturn
         /\ cfgSinceCache' = TRUE
         /\ cfgPending' = (InFlight = {})
         /\ cfgInFlight' = (InFlight # {})
         /\ UNCHANGED <<now, lastUpdate, detectedTokenLimit, currentActiveBlock,
                        historicalBlocks, calls, cacheBegan>>

\* updateConfiguration clearing the cache only when it changes the plan
UpdateConfiguration_ClearOnPlan(config) ==
    IF ~ResetConfigValid(config)
    THEN /\ ConfigRejected(config)
         /\ UNCHANGED <<now, engine, calls, history>>
    ELSE /\ resetConfig' = MergeResetConfig(resetConfig, config)
         /\ currentPlan' = PlanAfter(config)
         /\ cachedStats' = IF config.plan.defined THEN Null ELSE cachedStats
         /\ returned' = NoReturn
         /\ cfgSinceCache' = TRUE
         /\ cfgPending' = (InFlight = {})
         /\ cfgInFlight' = (InFlight # {})
         /\ UNCHANGED <<now, lastUpdate, detectedTokenLimit, currentActiveBlock,
                        historicalBlocks, calls, cacheBegan>>

\* updateConfiguration choosing the plan by the custom token limit when one
\* is given
UpdateConfiguration_LimitPicksPlan(config) ==
    IF ~ResetConfigValid(config)
    THEN /\ ConfigRejected(config)
         /\ UNCHANGED <<now, engine, calls, history>>
    ELSE /\ resetConfig' = MergeResetConfig(resetConfig, config)
         /\ currentPlan' = IF config.customTokenLimit.defined
                           THEN getPlanByTokenLimit(config.customTokenLimit.value).name
                           ELSE PlanAfter(config)
         /\ cachedStats' = Null
         /\ returned' = NoReturn
         /\ cfgSinceCache' = TRUE
         /\ cfgPending' = (InFlight = {})
         /\ cfgInFlight' = (InFlight # {})
         /\ UNCHANGED <<now, lastUpdate, detectedTokenLimit, currentActiveBlock,
                        historicalBlocks, calls, cacheBegan>>

\* updateConfiguration(config): the reset service takes the configuration
\* first, and its exception leaves the call before the plan and the cache are
\* touched
UpdateConfiguration(config) ==
    IF ~ResetConfigValid(config)
    THEN /\ ConfigRejected(config)
         /\ UNCHANGED <<now, engine, calls, history>>
    ELSE /\ resetConfig' = MergeResetConfig(resetConfig, config)
         /\ currentPlan' = PlanAfter(config)
         /\ cachedStats' = Null
         /\ returned' = NoReturn
         /\ cfgSinceCache' = TRUE
         /\ cfgPending' = (InFlight = {})
         /\ cfgInFlight' = (InFlight # {})
         /\ UNCHANGED <<now, lastUpdate, detectedTokenLimit, currentActiveBlock,
                        historicalBlocks, calls, cacheBegan>>

\* the freshness test with the window's end included
CacheIsFresh_Inclusive == cachedStats # Null /\ now - lastUpdate <= CACHE_DURATION

\* this.cachedStats && now - this.lastUpdate < this.CACHE_DURATION
CacheIsFresh == cachedStats # Null /\ now - lastUpdate < CACHE_DURATION

\* a call from site c at its await, both fetches issued
AwaitingCall(c) ==
    [pc |-> "awaiting", site |-> c, now |-> now, blocksP |-> "pending",
     dailyP |-> "pending", afterConfig |-> cfgPending]

\* getUsageStats() called from site c, up to its await: the cache check, then
\* the two fetches issued.  Nothing in the call looks at the calls already in
\* flight; a call that reaches its await takes the lowest free call slot, and
\* the number of slots is the only limit on overlapping calls.
GetUsageStats(c) ==
    /\ cfgPending' = FALSE
    /\ cfgInFlight' = FALSE
    /\ IF CacheIsFresh
       THEN /\ returned' = [op |-> "getUsageStats", caller |-> c, settled |-> "resolved",
                            path |-> "cache", began |-> now, stats |-> cachedStats]
            /\ UNCHANGED calls
       ELSE /\ FreeSlots # {}
            /\ LET s == CHOOSE f \in FreeSlots : \A g \in FreeSlots : f <= g
               IN calls' = [calls EXCEPT ![s] = AwaitingCall(c)]
            /\ returned' = NoReturn
    /\ UNCHANGED <<now, engine, cacheBegan, cfgSinceCache>>

\* a catch block that lets the loader's error through
Rejected_Rethrow(s, by) ==
    /\ returned' = [op |-> "getUsageStats", caller |-> calls[s].site, settled |-> "rejected",
                    path |-> "rejected", rejectedBy |-> by, began |-> calls[s].now,
                    blocksP |-> calls[s].blocksP, dailyP |-> calls[s].dailyP]
    /\ calls' = [calls EXCEPT ![s] = Idle]
    /\ UNCHANGED <<now, engine, history>>

\* a catch block that caches the default snapshot it returns
Rejected_CachesDefault(s, by) ==
    /\ returned' = [op |-> "getUsageStats", caller |-> calls[s].site, settled |-> "resolved",
                    path |-> "rejected", rejectedBy |-> by, began |-> calls[s].now,
                    blocksP |-> calls[s].blocksP, dailyP |-> calls[s].dailyP,
                    stats |-> getDefaultStats(Undefined, currentPlan, currentActiveBlock, now)]
    /\ calls' = [calls EXCEPT ![s] = Idle]
    /\ cachedStats' = getDefaultStats(Undefined, currentPlan, currentActiveBlock, now)
    /\ lastUpdate' = calls[s].now
    /\ UNCHANGED <<now, currentPlan, detectedTokenLimit, currentActiveBlock,
                   historicalBlocks, resetConfig, history>>

\* the catch block, entered when Promise.all rejects because `by` rejected
Rejected(s, by) ==
    /\ returned' = [op |-> "getUsageStats", caller |-> calls[s].site, settled |-> "resolved",
                    path |-> "rejected", rejectedBy |-> by, began |-> calls[s].now,
                    blocksP |-> calls[s].blocksP, dailyP |-> calls[s].dailyP,
                    stats |-> getDefaultStats(Undefined, currentPlan, currentActiveBlock, now)]
    /\ calls' = [calls EXCEPT ![s] = Idle]
    /\ UNCHANGED <<now, engine, history>>

\* the code after the await, given what the two fetches resolved with
Resolved(s, blocks, dailyData, onTrack) ==
    /\ calls' = [calls EXCEPT ![s] = Idle]
    /\ IF ~blocks.defined \/ Len(blocks.value) = 0
       THEN /\ returned' = [op |-> "getUsageStats", caller |-> calls[s].site, settled |-> "resolved",
                            path |-> "noBlocks", began |-> calls[s].now,
                            blocks |-> blocks, dailyData |-> dailyData,
                            planBefore |-> currentPlan,
                            stats |-> getDefaultStats(dailyData, currentPlan,
                                                      currentActiveBlock, now)]
            /\ UNCHANGED <<now, engine, history>>
       ELSE LET Parsed(parsed) ==
               /\ currentPlan' = parsed.currentPlan
               /\ detectedTokenLimit' = parsed.detectedTokenLimit
               /\ currentActiveBlock' = parsed.currentActiveBlock
               /\ IF parsed.thrown
                  THEN \* the catch block, entered from parseBlocksData
                       /\ returned' = [op |-> "getUsageStats", caller |-> calls[s].site,
                                       settled |-> "resolved", path |-> "thrown",
                                       error |-> parsed.error, began |-> calls[s].now,
                                       blocks |-> blocks, dailyData |-> dailyData,
                                       planBefore |-> currentPlan,
                                       stats |-> getDefaultStats(Undefined, parsed.currentPlan,
                                                     parsed.currentActiveBlock, now)]
                       /\ UNCHANGED <<now, cachedStats, lastUpdate, historicalBlocks,
                                      resetConfig, history>>
                  ELSE /\ cachedStats' = parsed.stats
                       /\ lastUpdate' = calls[s].now
                       /\ historicalBlocks' = blocks.value
                       /\ cacheBegan' = calls[s].now
                       /\ cfgSinceCache' = FALSE
                       /\ returned' = [op |-> "getUsageStats", caller |-> calls[s].site,
                                       settled |-> "resolved",
                                       path |-> IF parsed.currentActiveBlock = Null
                                                THEN "noActive" ELSE "active",
                                       began |-> calls[s].now,
                                       blocks |-> blocks, dailyData |-> dailyData,
                                       planBefore |-> currentPlan, stats |-> parsed.stats]
                       /\ UNCHANGED <<now, cfgPending, cfgInFlight, resetConfig>>
            IN Parsed(parseBlocksData(blocks.value, dailyData, currentPlan,
                                      detectedTokenLimit, currentActiveBlock, now, onTrack))

\* loadSessionBlockData's promise settles; BR and DR are what the two loaders
\* can resolve with
BlocksSettle(s, ok, BR, DR) ==
    /\ calls[s].pc = "awaiting"
    /\ calls[s].blocksP = "pending"
    /\ IF ~ok THEN Rejected(s, "loadSessionBlockData")
       ELSE IF calls[s].dailyP # "resolved"
       THEN /\ calls' = [calls EXCEPT ![s].blocksP = "resolved"]
            /\ returned' = NoReturn
            /\ UNCHANGED <<now, engine, history>>
       ELSE \E blocks \in BR, dailyData \in DR, onTrack \in BOOLEAN :
                Resolved(s, blocks, dailyData, onTrack)

\* the two fetches awaited one after the other: a rejected daily fetch is
\* noticed only once the block fetch has resolved
DailySettle_AwaitsBlocks(s, ok, BR, DR) ==
    /\ calls[s].pc = "awaiting"
    /\ calls[s].dailyP = "pending"
    /\ IF ~ok /\ calls[s].blocksP = "resolved" THEN Rejected(s, "loadDailyUsageData")
       ELSE IF ~ok
       THEN /\ calls' = [calls EXCEPT ![s].dailyP = "rejected"]
            /\ returned' = NoReturn
            /\ UNCHANGED <<now, engine, history>>
       ELSE IF calls[s].blocksP # "resolved"
       THEN /\ calls' = [calls EXCEPT ![s].dailyP = "resolved"]
            /\ returned' = NoReturn
            /\ UNCHANGED <<now, engine, history>>
       ELSE \E blocks \in BR, dailyData \in DR, onTrack \in BOOLEAN :
                Resolved(s, blocks, dailyData, onTrack)

\* loadDailyUsageData's promise settles
DailySettle(s, ok, BR, DR) ==
    /\ calls[s].pc = "awaiting"
    /\ calls[s].dailyP = "pending"
    /\ IF ~ok THEN Rejected(s, "loadDailyUsageData")
       ELSE IF calls[s].blocksP # "resolved"
       THEN /\ calls' = [calls EXCEPT ![s].dailyP = "resolved"]
            /\ returned' = NoReturn
            /\ UNCHANGED <<now, engine, history>>
       ELSE \E blocks \in BR, dailyData \in DR, onTrack \in BOOLEAN :
                Resolved(s, blocks, dailyData, onTrack)

\* a fetch that will never settle: the loader's promise stays pending for good
\* (which is "blocksP" or "dailyP")
FetchHangs(s, which) ==
    /\ calls[s].pc = "awaiting"
    /\ calls[s][which] = "pending"
    /\ calls' = [calls EXCEPT ![s][which] = "hung"]
    /\ returned' = NoReturn
    /\ UNCHANGED <<now, engine, history>>

ConcurrentDailyResults == {Defined(<<>>)}

\* the call site that polls the engine, the tray's updateTrayTitle: at start-up,
\* from the 1000 ms timer and from the 30 s poll, none of which waits for the
\* call before it
Driver == "tray"

\* a configuration without any field
EmptyConfig ==
    [plan |-> Undefined, timezone |-> Undefined, resetHour |-> Undefined,
     customTokenLimit |-> Undefined]

\* the engine under overlapping calls, the clock and configuration changes
\* that leave the plan alone
Next ==
    \/ /\ \E step \in TickSteps : Tick(step)
       /\ UNCHANGED aside
    \/ /\ UpdateConfiguration(EmptyConfig)
       /\ UNCHANGED aside
    \/ /\ GetUsageStats(Driver)
       /\ UNCHANGED aside
    \/ /\ \E s \in CallSlots, ok \in BOOLEAN :
              BlocksSettle(s, ok, ConcurrentBlockResults, ConcurrentDailyResults)
       /\ UNCHANGED aside
    \/ /\ \E s \in CallSlots, ok \in BOOLEAN :
              DailySettle(s, ok, ConcurrentBlockResults, ConcurrentDailyResults)
       /\ UNCHANGED aside

Spec == Init /\ [][Next]_vars

\* history: the snapshot a getUsageStats call has just returned, and when it was
\* computed (a cached one: when the recomputation that cached it began)
Remember ==
    /\ lastReturn' =
           IF returned'.op = "getUsageStats" /\ returned'.settled = "resolved"
           THEN [op |-> "getUsageStats", stats |-> returned'.stats,
                 computedAt |-> IF returned'.path = "cache" THEN cacheBegan
                                ELSE returned'.began]
           ELSE lastReturn
    /\ UNCHANGED <<refresh, lastConfig>>

\* the engine called again only once the call before has returned, with the
\* latest returned snapshot remembered until the next updateConfiguration
NextIdem ==
    \/ /\ \E step \in TickSteps : Tick(step)
       /\ UNCHANGED aside
    \/ /\ \E config \in ConfigInputs : UpdateConfiguration(config)
       /\ lastReturn' = NoReturn
       /\ UNCHANGED <<refresh, lastConfig>>
    \/ /\ InFlight = {}
       /\ GetUsageStats(Driver)
       /\ Remember
    \/ /\ \E s \in CallSlots, ok \in BOOLEAN : BlocksSettle(s, ok, PolledBlockResults, PolledDailyResults)
       /\ Remember
    \/ /\ \E s \in CallSlots, ok \in BOOLEAN : DailySettle(s, ok, PolledBlockResults, PolledDailyResults)
       /\ Remember

SpecIdem == Init /\ [][NextIdem]_vars

\* the engine under overlapping calls and configuration changes of the plan,
\* all within one instant: a cached snapshot stays fresh until a configuration
\* change clears it
NextPlanChanges ==
    \/ /\ \E config \in ConfigInputs : UpdateConfiguration(config)
       /\ UNCHANGED aside
    \/ /\ GetUsageStats(Driver)
       /\ UNCHANGED aside
    \/ /\ \E s \in CallSlots, ok \in BOOLEAN :
              BlocksSettle(s, ok, ThrowingBlockResults, PolledDailyResults)
       /\ UNCHANGED aside
    \/ /\ \E s \in CallSlots, ok \in BOOLEAN :
              DailySettle(s, ok, ThrowingBlockResults, PolledDailyResults)
       /\ UNCHANGED aside

SpecPlanChanges == Init /\ [][NextPlanChanges]_vars

\* the engine under configuration changes that carry a timezone and a reset
\* hour, called again only once the call before has returned
NextConfig ==
    \/ /\ \E step \in TickSteps : Tick(step)
       /\ UNCHANGED aside
    \/ /\ \E config \in ScheduleConfigInputs : UpdateConfiguration(config)
       /\ UNCHANGED aside
    \/ /\ InFlight = {}
       /\ GetUsageStats(Driver)
       /\ UNCHANGED aside
    \/ /\ \E s \in CallSlots, ok \in BOOLEAN : BlocksSettle(s, ok, ThrowingBlockResults, PolledDailyResults)
       /\ UNCHANGED aside
    \/ /\ \E s \in CallSlots, ok \in BOOLEAN : DailySettle(s, ok, ThrowingBlockResults, PolledDailyResults)
       /\ UNCHANGED aside

SpecConfig == Init /\ [][NextConfig]_vars

\* the velocity steps of parseBlocksData over one block list with an active
\* block, at VelocityNow: burn rate, velocity, prediction
ComputeVelocity(blocks) ==
    /\ findActiveBlock(blocks) # Undefined
    /\ LET tokensUsed == getTotalTokensFromBlock(findActiveBlock(blocks))
           tokenLimit == IF needsDetection(currentPlan, tokensUsed)
                         THEN getMaxTokensFromBlocks(blocks)
                         ELSE getTokenLimit(currentPlan)
           Computed(velocity) ==
               returned' = [op |-> "velocity", blocks |-> blocks,
                            tokensUsed |-> tokensUsed, tokenLimit |-> tokenLimit,
                            burnRate |-> calculateHourlyBurnRate(blocks, now),
                            tokensPerMinute |->
                                BurnRateValue(calculateHourlyBurnRate(blocks, now)),
                            velocity |-> velocity,
                            prediction |-> calculatePredictionInfo(tokensUsed, tokenLimit,
                                                                   velocity, now, TRUE)]
       IN Computed(VelocityNumbers(blocks, now))
    /\ UNCHANGED <<now, engine, calls, history>>

InitVelocity ==
    /\ now = VelocityNow
    /\ cachedStats = Null
    /\ lastUpdate = 0
    /\ currentPlan = "Pro"
    /\ detectedTokenLimit = 7000
    /\ currentActiveBlock = Null
    /\ historicalBlocks = <<>>
    /\ resetConfig = DefaultResetConfig
    /\ calls = [s \in CallSlots |-> Idle]
    /\ returned = NoReturn
    /\ cacheBegan = 0
    /\ cfgSinceCache = FALSE
    /\ cfgPending = FALSE
    /\ cfgInFlight = FALSE
    /\ lastReturn = NoReturn
    /\ refresh = [h \in CallSlots |-> RefreshIdle]
    /\ lastConfig = Undefined

\* each run computes one block list
NextVelocity ==
    /\ returned = NoReturn
    /\ \E blocks \in VelocityBlockLists : ComputeVelocity(blocks)
    /\ UNCHANGED aside

SpecVelocity == InitVelocity /\ [][NextVelocity]_vars

\* the call site of the 'refresh-data' handler
Refresher == "ipc"

\* ipcMain.handle('refresh-data'), invocation h, up to its first await: the
\* handler calls getUsageStats, and nothing before it touches the cache.  The
\* handler can be invoked again while earlier invocations are awaiting; a new
\* invocation takes the lowest invocation record at rest.
RefreshData(h) ==
    /\ refresh[h].pc = "idle"
    /\ \A g \in CallSlots : g < h => refresh[g].pc # "idle"
    /\ GetUsageStats(Refresher)
    /\ refresh' = [refresh EXCEPT ![h] =
                       IF CacheIsFresh THEN [pc |-> "title", fetched |-> FALSE, slot |-> 0]
                       ELSE [pc |-> "stats", fetched |-> TRUE,
                             slot |-> CHOOSE f \in FreeSlots : \A g \in FreeSlots : f <= g]]
    /\ UNCHANGED <<lastReturn, lastConfig>>

\* the second await of invocation h: updateTrayTitle calls getMenuBarData,
\* which calls getUsageStats; a cached answer ends the handler
RefreshTrayTitle(h) ==
    /\ refresh[h].pc = "title"
    /\ GetUsageStats(Refresher)
    /\ refresh' = [refresh EXCEPT ![h] =
                       IF CacheIsFresh
                       THEN [pc |-> "idle", fetched |-> refresh[h].fetched, slot |-> 0]
                       ELSE [pc |-> "tray", fetched |-> TRUE,
                             slot |-> CHOOSE f \in FreeSlots : \A g \in FreeSlots : f <= g]]
    /\ UNCHANGED <<lastReturn, lastConfig>>

\* an invocation moves on when the getUsageStats call it awaits, the one in
\* slot s, returns: from its own call to updateTrayTitle, from updateTrayTitle
\* to its return
RefreshResumes(s) ==
    /\ refresh' = [h \in CallSlots |->
                       IF refresh[h].slot = s /\ calls'[s].pc = "idle"
                       THEN [pc |-> IF refresh[h].pc = "stats" THEN "title" ELSE "idle",
                             fetched |-> refresh[h].fetched, slot |-> 0]
                       ELSE refresh[h]]
    /\ UNCHANGED <<lastReturn, lastConfig>>

\* the engine driven by the renderer's 'refresh-data' requests alone
NextRefresh ==
    \/ /\ \E step \in TickSteps : Tick(step)
       /\ UNCHANGED aside
    \/ \E h \in CallSlots : RefreshData(h)
    \/ \E h \in CallSlots : RefreshTrayTitle(h)
    \/ \E s \in CallSlots, ok \in BOOLEAN :
           /\ BlocksSettle(s, ok, PolledBlockResults, ConcurrentDailyResults)
           /\ RefreshResumes(s)
    \/ \E s \in CallSlots, ok \in BOOLEAN :
           /\ DailySettle(s, ok, PolledBlockResults, ConcurrentDailyResults)
           /\ RefreshResumes(s)

SpecRefresh == Init /\ [][NextRefresh]_vars

\* the engine under overlapping calls with loaders that may hang
StepBlocksSettle(s) ==
    /\ \E ok \in BOOLEAN :
           BlocksSettle(s, ok, ConcurrentBlockResults, ConcurrentDailyResults)
    /\ UNCHANGED aside

StepDailySettle(s) ==
    /\ \E ok \in BOOLEAN :
           DailySettle(s, ok, ConcurrentBlockResults, ConcurrentDailyResults)
    /\ UNCHANGED aside

NextLive ==
    \/ /\ \E step \in TickSteps : Tick(step)
       /\ UNCHANGED aside
    \/ /\ GetUsageStats(Driver)
       /\ UNCHANGED aside
    \/ /\ \E s \in CallSlots, which \in {"blocksP", "dailyP"} : FetchHangs(s, which)
       /\ UNCHANGED aside
    \/ \E s \in CallSlots : StepBlocksSettle(s)
    \/ \E s \in CallSlots : StepDailySettle(s)

\* a fetch that has not hung settles in the end, whatever the other calls do
SpecLive ==
    /\ Init /\ [][NextLive]_vars
    /\ \A s \in CallSlots : WF_vars(StepBlocksSettle(s)) /\ WF_vars(StepDailySettle(s))

\* the engine under overlapping calls and configuration changes that carry
\* a custom token limit, all within one instant, the configuration last given
\* remembered
NextCustom ==
    \/ /\ \E config \in CustomLimitConfigInputs :
              /\ UpdateConfiguration(config)
              /\ lastConfig' = Defined(config)
       /\ UNCHANGED <<lastReturn, refresh>>
    \/ /\ GetUsageStats(Driver)
       /\ UNCHANGED aside
    \/ /\ \E s \in CallSlots, ok \in BOOLEAN :
              BlocksSettle(s, ok, ConcurrentBlockResults \cup {Defined(PromotedTinyRate)},
                           ConcurrentDailyResults)
       /\ UNCHANGED aside
    \/ /\ \E s \in CallSlots, ok \in BOOLEAN :
              DailySettle(s, ok, ConcurrentBlockResults \cup {Defined(PromotedTinyRate)},
                          ConcurrentDailyResults)
       /\ UNCHANGED aside

SpecCustom == Init /\ [][NextCustom]_vars

\* the three plan lookups applied to one token count
ClassifyTokens(n) ==
    /\ returned' = [op |-> "classify", tokens |-> n,
                    getPlanByTokenLimit |-> getPlanByTokenLimit(n),
                    detectPlanFromUsage |-> detectPlanFromUsage(n),
                    detectPlan |-> detectPlan(n)]
    /\ UNCHANGED <<now, engine, calls, history>>

NextPlans ==
    /\ \E n \in TokenProbes : ClassifyTokens(n)
    /\ UNCHANGED aside

SpecPlans == Init /\ [][NextPlans]_vars

\* the engine up to its first recomputation over a non-empty block list, one
\* call at a time, under every plan and over every block list and daily result
\* of the input sets
NextParse ==
    \/ /\ \E config \in ConfigInputs : UpdateConfiguration(config)
       /\ UNCHANGED aside
    \/ /\ historicalBlocks = <<>>
       /\ currentActiveBlock = Null
       /\ InFlight = {}
       /\ GetUsageStats(Driver)
       /\ UNCHANGED aside
    \/ /\ \E s \in CallSlots, ok \in BOOLEAN : BlocksSettle(s, ok, BlockResults, DailyResults)
       /\ UNCHANGED aside
    \/ /\ \E s \in CallSlots, ok \in BOOLEAN : DailySettle(s, ok, BlockResults, DailyResults)
       /\ UNCHANGED aside

SpecParse == Init /\ [][NextParse]_vars

----------------------------------------------------------------------------
(* Properties of the polled engine (Spec) *)

ReturnedStats == returned.op = "getUsageStats" /\ returned.settled = "resolved"

\* the step leaves a new call from site c at its await, both loader fetches
\* issued and none settled
StartsFetch(c) ==
    /\ returned' = NoReturn
    /\ \E s \in CallSlots :
           /\ calls[s].pc = "idle"
           /\ calls'[s].pc = "awaiting"
           /\ calls'[s].site = c
           /\ calls'[s].now = now
           /\ calls'[s].blocksP = "pending"
           /\ calls'[s].dailyP = "pending"
           /\ \A o \in CallSlots \ {s} : calls'[o] = calls[o]

\* C1: a getUsageStats call made while a snapshot is cached, with no
\* updateConfiguration since it was cached and less than 3000 ms after the
\* start of the recomputation that cached it, returns that snapshot and calls
\* no loader; from 3000 ms on it issues both loader fetches again.
C1_FreshnessWindow ==
    [][\A c \in Callers :
          (GetUsageStats(c) /\ cachedStats # Null /\ ~cfgSinceCache) =>
              IF now - cacheBegan < 3000
              THEN /\ returned' = [op |-> "getUsageStats", caller |-> c,
                                   settled |-> "resolved", path |-> "cache",
                                   began |-> now, stats |-> cachedStats]
                   /\ calls' = calls
              ELSE StartsFetch(c)]_vars

\* a call served from the cache 2999 ms after the recomputation began
C1_Witness ==
    /\ ReturnedStats
    /\ returned.path = "cache"
    /\ ~cfgSinceCache
    /\ returned.began - cacheBegan = 2999

\* C3: after an updateConfiguration made while no recomputation is in flight
\* (whatever fields it carries), the next getUsageStats call issues the loader
\* fetches instead of serving the cache, however young the snapshot was.
C3_ConfigInvalidates ==
    [][\A c \in Callers :
          (GetUsageStats(c) /\ cfgPending) =>
              StartsFetch(c)]_vars

\* a call that followed a configuration change fetches although the snapshot
\* cached before the change is younger than 3 s
C3_Witness ==
    \E s \in CallSlots :
        /\ calls[s].pc = "awaiting"
        /\ calls[s].afterConfig
        /\ cachedStats = Null
        /\ historicalBlocks # <<>>
        /\ calls[s].now - cacheBegan < 3000

\* C4: when either loader fetch rejects, getUsageStats resolves, and with the
\* default snapshot: no tokens used, 0 percent, empty thisWeek and thisMonth,
\* on track for the reset.
C4_RejectionGivesDefault ==
    (returned.op = "getUsageStats" /\ returned.path = "rejected") =>
        /\ returned.settled = "resolved"
        /\ returned.stats.tokensUsed = 0
        /\ returned.stats.percentageUsed.num = 0
        /\ returned.stats.percentageUsed.den > 0
        /\ returned.stats.thisWeek = <<>>
        /\ returned.stats.thisMonth = <<>>
        /\ returned.stats.prediction.onTrackForReset = TRUE

\* the daily fetch rejected after the block fetch had resolved, with a
\* snapshot of an active session in the cache
C4_Witness ==
    /\ returned.op = "getUsageStats"
    /\ returned.path = "rejected"
    /\ returned.rejectedBy = "loadDailyUsageData"
    /\ cachedStats # Null
    /\ cachedStats.tokensUsed > 0

\* C5: every default snapshot (zero blocks, no active block, or a failed fetch)
\* has no tokens used, 0 percent, and an actualResetInfo without a reset time
\* that reads "No active session".
C5_DefaultHasNoSession ==
    (ReturnedStats /\ returned.path \in {"rejected", "noBlocks", "noActive"}) =>
        /\ returned.stats.tokensUsed = 0
        /\ returned.stats.percentageUsed.num = 0
        /\ returned.stats.actualResetInfo.nextResetTime = Null
        /\ returned.stats.actualResetInfo.formattedTimeRemaining = "No active session"

\* (checked under SpecPlanChanges, where updateConfiguration carries every plan)
\* C14: updateConfiguration sets the plan to Custom for "auto", to the given
\* tier for Pro, Max5, Max20 or Custom, leaves it unchanged when the plan field
\* is absent, and clears the cached snapshot in all three cases.
C14_PlanOverride ==
    [][\A config \in ConfigInputs :
          UpdateConfiguration(config) =>
              /\ cachedStats' = Null
              /\ currentPlan' = CASE ~config.plan.defined -> currentPlan
                                   [] config.plan.defined /\ config.plan.value = "auto" -> "Custom"
                                   [] OTHER -> config.plan.value]_vars

\* a configuration change that moved the plan to Max5 and emptied a cache an
\* earlier recomputation had filled
C14_Witness ==
    /\ cfgSinceCache
    /\ historicalBlocks # <<>>
    /\ cachedStats = Null
    /\ currentPlan = "Max5"
    /\ returned = NoReturn

\* C19: when updateConfiguration is called while a recomputation is awaiting
\* the loaders, the first getUsageStats call started after it calls the
\* loaders: the recomputation in flight does not refill the cache that
\* updateConfiguration cleared.
C19_InFlightDoesNotRefill ==
    [][\A c \in Callers :
          (GetUsageStats(c) /\ cfgInFlight) =>
              StartsFetch(c)]_vars

----------------------------------------------------------------------------
(* Properties of consecutive calls (SpecIdem) *)

\* C2: a getUsageStats call that begins less than 3000 ms after the snapshot
\* returned by the previous call was computed, with no updateConfiguration
\* between the two calls, returns the same snapshot as the previous call,
\* whatever the loaders delivered to either call.
C2_SecondCallSameSnapshot ==
    [][(/\ lastReturn # NoReturn
        /\ returned'.op = "getUsageStats"
        /\ returned'.settled = "resolved"
        /\ lastReturn' # NoReturn
        /\ returned'.began - lastReturn.computedAt < CACHE_DURATION)
           => returned'.stats = lastReturn.stats]_vars

----------------------------------------------------------------------------
(* Properties of one recomputation (SpecParse) *)

\* a call that returned after both fetches resolved
Recomputed ==
    ReturnedStats /\ returned.path \in {"noBlocks", "noActive", "active", "thrown"}

\* the positions of the fetched list's blocks that are active and not a gap
ActiveNonGap(blocks) == {i \in 1..Len(blocks) : blocks[i].isActive /\ ~blocks[i].isGap}

\* the fetched list has an active block that is not a gap
HasActive == Recomputed /\ returned.blocks.defined /\ ActiveNonGap(returned.blocks.value) # {}

\* the four-kind total of the first active non-gap block of the fetched list
FirstActiveTotal ==
    LET blocks == returned.blocks.value
        first == CHOOSE i \in ActiveNonGap(blocks) : \A j \in ActiveNonGap(blocks) : i <= j
        tc == blocks[first].tokenCounts
    IN tc.inputTokens + tc.outputTokens + tc.cacheCreationInputTokens + tc.cacheReadInputTokens

\* the totals of the fetched list's closed blocks (neither gap nor active)
HistoryTotals ==
    LET blocks == returned.blocks.value
    IN {blocks[i].tokenCounts.inputTokens + blocks[i].tokenCounts.outputTokens
        + blocks[i].tokenCounts.cacheCreationInputTokens
        + blocks[i].tokenCounts.cacheReadInputTokens :
            i \in {j \in 1..Len(blocks) : ~blocks[j].isGap /\ ~blocks[j].isActive}}

\* the fixed thresholds of the three priced tiers
FixedThreshold(plan) ==
    CASE plan = "Pro" -> 7000 [] plan = "Max5" -> 35000 [] plan = "Max20" -> 140000

\* C6: in every snapshot getUsageStats returns, 0 <= percentageUsed <= 100 and
\* tokenLimit > 0, for every plan and block list, also when tokensUsed exceeds
\* tokenLimit; the percentage is never a division by zero.
C6_PercentageClamped ==
    ReturnedStats =>
        /\ returned.stats.tokenLimit > 0
        /\ returned.stats.percentageUsed.den > 0
        /\ returned.stats.percentageUsed.num >= 0
        /\ returned.stats.percentageUsed.num <= 100 * returned.stats.percentageUsed.den

\* a snapshot whose usage exceeds its limit, at 100 percent
C6_Witness ==
    /\ ReturnedStats
    /\ returned.stats.tokensUsed > returned.stats.tokenLimit
    /\ returned.stats.percentageUsed = Fraction(100, 1)

\* C7: in every snapshot getUsageStats returns, tokensRemaining >= 0 and
\* tokensRemaining = max(0, tokenLimit - tokensUsed).
C7_RemainingFloored ==
    ReturnedStats =>
        /\ returned.stats.tokensRemaining >= 0
        /\ returned.stats.tokensRemaining =
               IF returned.stats.tokenLimit > returned.stats.tokensUsed
               THEN returned.stats.tokenLimit - returned.stats.tokensUsed
               ELSE 0

\* a snapshot whose usage exceeds its limit, with nothing remaining
C7_Witness ==
    /\ ReturnedStats
    /\ returned.path = "active"
    /\ returned.stats.tokenLimit - returned.stats.tokensUsed < 0
    /\ returned.stats.tokensRemaining = 0

\* C8: when the fetched block list has a block that is active and not a gap,
\* the snapshot's tokensUsed is the sum of the four token-kind counts of the
\* first such block in list order; no other block contributes.
C8_TokensUsedOfFirstActive ==
    HasActive => returned.stats.tokensUsed = FirstActiveTotal

\* C9: under Max5 or Max20 (any usage), or under Pro with an active block of at
\* most 7000 tokens, the snapshot's tokenLimit is the plan's fixed threshold
\* and the plan stays what it was; 5000 tokens under Pro are 5000/7000*100
\* percent (500/7), status warning.
C9_FixedThreshold ==
    /\ (Recomputed /\ (\/ returned.planBefore \in {"Max5", "Max20"}
                        \/ (/\ returned.planBefore = "Pro"
                            /\ HasActive
                            /\ FirstActiveTotal <= 7000))) =>
           /\ returned.stats.tokenLimit = FixedThreshold(returned.planBefore)
           /\ returned.stats.currentPlan = returned.planBefore
           /\ currentPlan = returned.planBefore
    /\ (HasActive /\ returned.planBefore = "Pro" /\ FirstActiveTotal = 5000) =>
           /\ returned.stats.percentageUsed.num * 7 = 500 * returned.stats.percentageUsed.den
           /\ getUsageStatus(returned.stats.percentageUsed) = "warning"

\* C10 as the scenario states it: under Pro with an active block above 7000
\* tokens the plan becomes Custom and tokenLimit is the maximum total of the
\* historical blocks, or 500000 when there is no history.
C10_OpenDefaultFallback ==
    (HasActive /\ returned.planBefore = "Pro" /\ FirstActiveTotal > 7000) =>
        /\ currentPlan = "Custom"
        /\ returned.stats.currentPlan = "Custom"
        /\ returned.stats.tokenLimit =
               IF HistoryTotals # {}
               THEN CHOOSE m \in HistoryTotals : \A h \in HistoryTotals : h <= m
               ELSE 500000

\* C10: under Pro with an active block above 7000 tokens the plan becomes
\* Custom and tokenLimit is the maximum total of the historical blocks, or
\* the Pro threshold 7000 when no historical block has a positive total; when
\* the prediction throws, the plan becomes Custom all the same and the default
\* snapshot returned carries the open default 500000.
C10_PromotionLimit ==
    (HasActive /\ returned.planBefore = "Pro" /\ FirstActiveTotal > 7000) =>
        /\ currentPlan = "Custom"
        /\ returned.stats.currentPlan = "Custom"
        /\ returned.stats.tokenLimit =
               IF returned.path = "thrown" THEN 500000
               ELSE IF \E h \in HistoryTotals : h > 0
               THEN CHOOSE m \in HistoryTotals : \A h \in HistoryTotals : h <= m
               ELSE 7000

\* 7500 tokens under Pro with no closed block in the list: Custom, limit 7000
C10_Witness ==
    /\ HasActive
    /\ returned.planBefore = "Pro"
    /\ FirstActiveTotal = 7500
    /\ HistoryTotals = {}
    /\ currentPlan = "Custom"
    /\ returned.stats.tokenLimit = 7000

\* the limit is auto-detected: Custom, or Pro with an active block above 7000
Detecting ==
    /\ HasActive
    /\ \/ returned.planBefore = "Custom"
       \/ (returned.planBefore = "Pro" /\ FirstActiveTotal > 7000)

\* the largest total of the fetched list's closed blocks
HistoryMax == CHOOSE m \in HistoryTotals : \A h \in HistoryTotals : h <= m

\* C11 as stated: when the limit is auto-detected, tokenLimit is the maximum
\* total over the blocks that are neither gap nor active, and 7000 when no such
\* block exists.
C11_LimitIsHistoryMax ==
    Detecting =>
        returned.stats.tokenLimit = IF HistoryTotals # {} THEN HistoryMax ELSE 7000

\* C11: when the limit is auto-detected, tokenLimit is the maximum total over
\* the blocks that are neither gap nor active, and 7000 when no such block has
\* a positive total; the active block's own total never enters the maximum.
\* When the prediction throws, the default snapshot returned carries the open
\* default 500000 of the Custom plan.
C11_LimitIsPositiveHistoryMax ==
    Detecting =>
        returned.stats.tokenLimit =
            IF returned.path = "thrown" THEN 500000
            ELSE IF \E h \in HistoryTotals : h > 0 THEN HistoryMax ELSE 7000

\* under Custom, an active block of 150000 tokens beside a closed block of
\* 5000: the limit is 5000
C11_Witness ==
    /\ Detecting
    /\ returned.planBefore = "Custom"
    /\ FirstActiveTotal = 150000
    /\ HistoryTotals = {5000}
    /\ returned.stats.tokenLimit = 5000

\* what getMenuBarData resolves with when its getUsageStats call returned
MenuBarData == getMenuBarData(returned.stats)

\* C12: getMenuBarData returns the tokensUsed, tokenLimit and percentageUsed of
\* the snapshot its getUsageStats call returned, that snapshot's
\* today.totalCost as cost, and status critical from 90 percent, warning from
\* 70 to below 90, safe otherwise.
C12_MenuBarProjection ==
    ReturnedStats =>
        /\ MenuBarData.tokensUsed = returned.stats.tokensUsed
        /\ MenuBarData.tokenLimit = returned.stats.tokenLimit
        /\ MenuBarData.percentageUsed = returned.stats.percentageUsed
        /\ MenuBarData.cost = returned.stats.today.totalCost
        /\ LET num == returned.stats.percentageUsed.num
               den == returned.stats.percentageUsed.den
           IN MenuBarData.status =
                  CASE num >= 90 * den -> "critical"
                    [] num >= 70 * den /\ num < 90 * den -> "warning"
                    [] OTHER -> "safe"

\* exactly 90 percent (6300 of 7000), critical, with the daily loader's cost
\* for today
C12_Witness ==
    /\ ReturnedStats
    /\ returned.stats.tokensUsed = 6300
    /\ returned.stats.tokenLimit = 7000
    /\ MenuBarData.status = "critical"
    /\ MenuBarData.cost = 3

\* the block list without its gap blocks
WithoutGaps(blocks) == SelectSeq(blocks, LAMBDA b : ~b.isGap)

\* the snapshot the returning call would have computed from another block list
SnapshotOf(blocks) ==
    IF Len(blocks) = 0
    THEN getDefaultStats(returned.dailyData, returned.planBefore, Null, now)
    ELSE LET parsed == parseBlocksData(blocks, returned.dailyData, returned.planBefore,
                                       detectedTokenLimit, Null, now, TRUE)
         IN IF parsed.thrown
            THEN getDefaultStats(Undefined, parsed.currentPlan, parsed.currentActiveBlock, now)
            ELSE parsed.stats

\* C13: gap blocks contribute to no aggregate: the snapshot computed from a
\* block list and the one computed from the list without its gap blocks have
\* the same tokensUsed, tokenLimit, plan, burnRate and 24h and 7d averages, and
\* the fold of the blocks into daily usage (totals, costs, model lists) is the
\* same.
C13_GapsContributeNothing ==
    (Recomputed /\ returned.blocks.defined) =>
        LET blocks == returned.blocks.value
            other == SnapshotOf(WithoutGaps(blocks))
        IN /\ returned.stats.tokensUsed = other.tokensUsed
           /\ returned.stats.tokenLimit = other.tokenLimit
           /\ returned.stats.currentPlan = other.currentPlan
           /\ returned.stats.burnRate = other.burnRate
           /\ returned.stats.velocity = other.velocity
           /\ convertBlocksToDailyUsage(blocks) = convertBlocksToDailyUsage(WithoutGaps(blocks))

\* an active gap block with 40000 tokens, started within the last day, beside
\* the active block of 5000: 5000 used, 5000 in the 24h sum, one burn term
C13_Witness ==
    /\ HasActive
    /\ Len(returned.blocks.value) = 2
    /\ \E i \in 1..2 : /\ returned.blocks.value[i].isGap
                       /\ returned.blocks.value[i].isActive
                       /\ returned.blocks.value[i].tokenCounts.inputTokens = 30000
    /\ returned.stats.tokensUsed = 5000
    /\ returned.stats.velocity.average24h = Fraction(5000, 24)
    /\ Len(returned.stats.burnRate.sumOf) = 1

\* C16: when the daily loader returns no daily data (absent, or an empty
\* sequence) and the block list has an active block, getUsageStats returns the
\* active block's tokensUsed and a daily history (today, thisWeek, thisMonth)
\* that is the fold of the non-gap blocks into calendar days.
C16_NoDailyDataFoldsBlocks ==
    (HasActive /\ (~returned.dailyData.defined \/ Len(returned.dailyData.value) = 0)) =>
        LET folded == convertBlocksToDailyUsage(returned.blocks.value)
        IN /\ returned.stats.tokensUsed = FirstActiveTotal
           /\ returned.stats.today = TodayOf(folded, toISOStringLocal(now), now)
           /\ returned.stats.thisWeek = Since(folded, 7, now)
           /\ returned.stats.thisMonth = Since(folded, 30, now)

----------------------------------------------------------------------------
(* Properties of the engine under schedule configuration (SpecConfig) *)

\* a configuration with a timezone that is no timezone, or a reset hour
\* outside 0..23
InvalidSchedule(config) ==
    \/ config.timezone = Defined("Mars/Olympus")
    \/ (config.resetHour.defined
        /\ (config.resetHour.value < 0 \/ config.resetHour.value > 23))

\* C15: updateConfiguration with an invalid timezone or a reset hour outside
\* 0..23 is rejected: the 'update-preferences' handler answers the caller with
\* success false and an error that names an offending field and its value, and
\* the call leaves the held configuration, the plan (also when the
\* configuration carries one), the cache and every other engine field as they
\* were.
C15_InvalidConfigRejected ==
    [][\A config \in ScheduleConfigInputs :
          (UpdateConfiguration(config) /\ InvalidSchedule(config)) =>
              /\ returned'.op = "updateConfiguration"
              /\ returned'.settled = "rejected"
              /\ LET reply == UpdatePreferencesReply(returned'.thrown)
                 IN /\ ~reply.success
                    /\ IF reply.error.field = "timezone"
                       THEN /\ config.timezone = Defined("Mars/Olympus")
                            /\ reply.error.timezone = config.timezone.value
                       ELSE /\ reply.error.field = "resetHour"
                            /\ config.resetHour.defined
                            /\ config.resetHour.value \notin 0..23
                            /\ reply.error.resetHour = config.resetHour.value
              /\ UNCHANGED <<engine, calls>>]_vars

\* a rejected configuration that carried the plan Max20, with the plan still
\* Pro, a snapshot still cached and the timezone an earlier valid call had set
\* still held
C15_Witness ==
    /\ returned.op = "updateConfiguration"
    /\ returned.settled = "rejected"
    /\ returned.config.plan = Defined("Max20")
    /\ currentPlan = "Pro"
    /\ cachedStats # Null
    /\ resetConfig.timezone = "UTC"

\* what a call of getTimeUntilActualReset returns in the current state
ActualReset == getTimeUntilActualReset(currentActiveBlock, now)

\* C20: after a recomputation that found an active non-gap block,
\* getTimeUntilActualReset returns that block's nominal end time as
\* nextResetTime and max(0, end - now) as timeUntilReset, whatever timezone and
\* reset hour are configured; after one that found no active block it returns
\* null, 0 and "No active session".
C20_ActualResetFromActiveBlock ==
    /\ [](IF currentActiveBlock # Null
          THEN LET end == currentActiveBlock.endTime.time
               IN /\ ActualReset.nextResetTime = Date(end)
                  /\ ActualReset.timeUntilReset = IF end > now THEN end - now ELSE 0
          ELSE /\ ActualReset.nextResetTime = Null
               /\ ActualReset.timeUntilReset = 0
               /\ ActualReset.formattedTimeRemaining = "No active session")
    /\ [][IF ReturnedStats' /\ returned'.path \in {"noActive", "active", "thrown"}
          THEN LET blocks == returned'.blocks.value
               IN currentActiveBlock' =
                      IF ActiveNonGap(blocks) = {} THEN Null
                      ELSE blocks[CHOOSE i \in ActiveNonGap(blocks) :
                                      \A j \in ActiveNonGap(blocks) : i <= j]
          ELSE currentActiveBlock' = currentActiveBlock]_vars

\* the clock 999 ms past the end of the active block the last recomputation
\* found, under a timezone and a reset hour set by updateConfiguration
C20_Witness ==
    /\ historicalBlocks # <<>>
    /\ ActiveNonGap(historicalBlocks) # {}
    /\ currentActiveBlock # Null
    /\ now - currentActiveBlock.endTime.time = 999
    /\ ActualReset.timeUntilReset = 0
    /\ resetConfig.timezone = "UTC"
    /\ resetConfig.resetHour = 23

----------------------------------------------------------------------------
(* Properties of the plan catalog (SpecPlans) *)

\* the priced tiers whose threshold the token count does not exceed
TiersFitting(n) == {p \in {"Pro", "Max5", "Max20"} : n <= FixedThreshold(p)}

\* C17: getPlanByTokenLimit returns, for every token count n >= 0, the tier with
\* the smallest threshold among Pro, Max5 and Max20 that n does not exceed, and
\* Custom above 140000; detectPlanFromUsage and detectPlan classify every n the
\* same way.
C17_SmallestFittingTier ==
    returned.op = "classify" =>
        LET n == returned.tokens
            tier == IF TiersFitting(n) = {} THEN "Custom"
                    ELSE CHOOSE p \in TiersFitting(n) :
                             \A q \in TiersFitting(n) : FixedThreshold(p) <= FixedThreshold(q)
        IN /\ returned.getPlanByTokenLimit.name = tier
           /\ tier # "Custom" => returned.getPlanByTokenLimit.tokenLimit = FixedThreshold(tier)
           /\ returned.detectPlanFromUsage = returned.getPlanByTokenLimit
           /\ returned.detectPlan = tier

\* exactly 35000 tokens: Max5 by all three lookups
C17_Witness ==
    /\ returned.op = "classify"
    /\ returned.tokens = 35000
    /\ returned.getPlanByTokenLimit.name = "Max5"
    /\ returned.detectPlanFromUsage.name = "Max5"
    /\ returned.detectPlan = "Max5"

----------------------------------------------------------------------------
(* Properties of overlapping calls (Spec) *)

\* C18: at most one recomputation is in flight at any time: a getUsageStats
\* call that arrives while one is in flight starts no second pair of fetches.
C18_SingleRecomputationInFlight == Cardinality(InFlight) <= 1

----------------------------------------------------------------------------
(* Properties of the velocity computations (SpecVelocity) *)

Velocity == returned.op = "velocity"

\* C21: the confidence is 50, plus 30 if the current hourly rate and the 24h
\* average are both positive, minus 20 if the magnitude of the trend percent
\* exceeds 50 (also when the current rate is 0 and the 24h average is
\* positive), clamped to [0, 95].
C21_ConfidenceSteps ==
    (Velocity /\ ~returned.prediction.thrown) =>
        LET v == returned.velocity
            plus == IF DSign(v.current) > 0 /\ DSign(v.average24h) > 0 THEN 30 ELSE 0
            minus == IF DGreater(DAbs(v.trendPercent), DblOfInt(50)) THEN 20 ELSE 0
        IN returned.prediction.confidence = Min2(95, Max2(0, 50 + plus - minus))

\* what the block adds to the hourly sum at time t: its four-kind total times
\* overlap minutes over block minutes, the block running from its start to its
\* effective end and the hour from t - 60 min to t (in the arithmetic of
\* JavaScript numbers, as every quantity of the velocity computations)
Contribution(block, t) ==
    LET effectiveEnd == IF block.isActive THEN t
                        ELSE IF block.actualEndTime # Undefined THEN block.actualEndTime.time
                        ELSE block.endTime.time
        from == Max2(block.startTime.time, t - 60 * MsPerMinute)
        to == Min2(effectiveEnd, t)
        overlapMinutes == DDiv(DblOfInt(to - from), DblOfInt(MsPerMinute))
        blockMinutes == DDiv(DblOfInt(effectiveEnd - block.startTime.time),
                             DblOfInt(MsPerMinute))
        total == block.tokenCounts.inputTokens + block.tokenCounts.outputTokens
                 + block.tokenCounts.cacheCreationInputTokens
                 + block.tokenCounts.cacheReadInputTokens
    IN IF block.isGap \/ to <= from THEN DZero
       ELSE DMul(DblOfInt(total), DDiv(overlapMinutes, blockMinutes))

RECURSIVE ContributionSum(_, _, _)
ContributionSum(blocks, i, t) ==
    IF i = 0 THEN DZero
    ELSE DAdd(ContributionSum(blocks, i - 1, t), Contribution(blocks[i], t))

\* C22: the burn rate is the sum, divided by 60, of what each block
\* contributes: for a non-gap block overlapping the trailing 60 minutes its
\* four-kind total times overlap minutes over block minutes (the block ending
\* now if active, else at its actual end if set, else at its nominal end), 0
\* for any other block; no block contributes more than its own total.
C22_BurnRateApportioned ==
    Velocity =>
        /\ returned.burnRate.dividedBy = 60
        /\ returned.tokensPerMinute
               = DDiv(ContributionSum(returned.blocks, Len(returned.blocks), now),
                      DblOfInt(60))
        /\ \A i \in 1..Len(returned.burnRate.sumOf) :
               LET term == returned.burnRate.sumOf[i]
               IN ~DGreater(TermValue(term), DblOfInt(term.tokens))

\* the closed two-hour block of 1200 tokens with 30 minutes in the hour adds
\* 300, next to an active block of 2400 tokens two hours old that adds 1200
C22_Witness ==
    /\ Velocity
    /\ returned.blocks = <<SessionBlock(FALSE, FALSE, 1200, 150, 30, Undefined),
                           SessionBlock(TRUE, FALSE, 2400, 120, -180, Undefined)>>
    /\ TermValue(returned.burnRate.sumOf[1]) = DblOfInt(300)
    /\ returned.tokensPerMinute = DblOfInt(25)

\* -1, 0 or 1 as x * kx is below, equal to or above y * ky, compared exactly
\* (x and y not negative, kx and ky positive and below 2^15)
ScaledCmp(x, kx, y, ky) ==
    LET e == Min2(x.exp, y.exp)
    IN BigCmp(BigMulSmall(BigShl(x.mant, x.exp - e), kx),
              BigMulSmall(BigShl(y.mant, y.exp - e), ky))

\* C23: the trend is increasing when the current hourly rate exceeds the 24h
\* average by more than 15 percent, decreasing when it is below it by more than
\* 15 percent, stable otherwise; with a 24h average of 0 the trend percent is 0
\* and the trend stable; isAccelerating holds exactly when the trend is
\* increasing and the current rate exceeds the average by more than 20 percent.
C23_TrendClassification ==
    Velocity =>
        LET v == returned.velocity
            \* current * 100 against average24h * pct
            against(pct) == ScaledCmp(v.current, 100, v.average24h, pct)
        IN /\ v.trend = IF DSign(v.average24h) > 0 /\ against(115) > 0 THEN "increasing"
                        ELSE IF DSign(v.average24h) > 0 /\ against(85) < 0 THEN "decreasing"
                        ELSE "stable"
           /\ DSign(v.average24h) = 0 => (DSign(v.trendPercent) = 0 /\ v.trend = "stable")
           /\ v.isAccelerating <=> (v.trend = "increasing" /\ against(120) > 0)

\* a current rate of 120 tokens per hour against a 24h average of 100: 20
\* percent up, increasing, not accelerating
C23_Witness ==
    /\ Velocity
    /\ returned.velocity.current = DblOfInt(120)
    /\ returned.velocity.average24h = DblOfInt(100)
    /\ returned.velocity.trendPercent = DblOfInt(20)
    /\ returned.velocity.trend = "increasing"
    /\ ~returned.velocity.isAccelerating

----------------------------------------------------------------------------
(* Properties of the 'refresh-data' handler (SpecRefresh) *)

\* C24: every invocation of the 'refresh-data' handler causes a new loader
\* fetch, also when a snapshot younger than 3 seconds is cached: no invocation
\* of the handler returns without a fetch issued for it.
C24_RefreshFetches ==
    [][\A h \in CallSlots :
          (refresh[h].pc # "idle" /\ refresh'[h].pc = "idle") => refresh'[h].fetched]_vars

----------------------------------------------------------------------------
(* Properties of the daily history (SpecParse) *)

\* the DailyUsage records of a snapshot: today and those of thisWeek and thisMonth
DaysOf(stats) ==
    {stats.today} \cup {stats.thisWeek[i] : i \in 1..Len(stats.thisWeek)}
                  \cup {stats.thisMonth[i] : i \in 1..Len(stats.thisMonth)}

\* C25: no DailyUsage of any snapshot (today, thisWeek, thisMonth) has a model
\* entry named "<synthetic>", whether the daily data comes from the loader's
\* aggregates, on the active-session path or the default path, or from folding
\* the blocks.
C25_NoSyntheticModel ==
    ReturnedStats =>
        \A day \in DaysOf(returned.stats) : "<synthetic>" \notin DOMAIN day.models

\* a snapshot of the active-session path whose daily aggregates list a
\* synthetic breakdown next to opus for today: only opus is kept
C25_Witness ==
    /\ ReturnedStats
    /\ returned.path = "active"
    /\ returned.dailyData = Defined(<<DailyEntry(0, <<"opus", "<synthetic>">>)>>)
    /\ DOMAIN returned.stats.today.models = {"opus"}
    /\ Len(returned.stats.thisWeek) = 1

----------------------------------------------------------------------------
(* Properties of calls whose loaders may hang (SpecLive) *)

Awaiting(s) == calls[s].pc = "awaiting"

\* one of the call's fetches will never settle
HasHung(s) == Awaiting(s) /\ (calls[s].blocksP = "hung" \/ calls[s].dailyP = "hung")

\* one of the call's fetches will never settle and the other has resolved or
\* will never settle either
Stuck(s) ==
    /\ HasHung(s)
    /\ calls[s].blocksP \in {"hung", "resolved"}
    /\ calls[s].dailyP \in {"hung", "resolved"}

\* C26 as stated: every call whose two fetches settle returns in the end, and a
\* call with a fetch that never settles never returns.
C26_HungNeverReturns ==
    /\ \A s \in CallSlots : Awaiting(s) ~> (~Awaiting(s) \/ HasHung(s))
    /\ [][\A s \in CallSlots : HasHung(s) => Awaiting(s)']_vars

\* C26: every call whose two fetches settle returns a snapshot in the end; a
\* call with a fetch that never settles never returns once the other fetch has
\* resolved or hangs too, and returns the default snapshot if the other fetch
\* rejects.
C26_ReturnsUnlessStuck ==
    /\ \A s \in CallSlots : Awaiting(s) ~> (~Awaiting(s) \/ Stuck(s))
    /\ [][\A s \in CallSlots : Stuck(s) => (Stuck(s)' /\ calls'[s] = calls[s])]_vars
    /\ [][\A s \in CallSlots : (Awaiting(s) /\ ~Awaiting(s)') =>
              (returned'.op = "getUsageStats" /\ returned'.settled = "resolved")]_vars

\* a call returned the default snapshot on the daily fetch's rejection while
\* its block fetch hangs
C26_Witness ==
    /\ ReturnedStats
    /\ returned.path = "rejected"
    /\ returned.rejectedBy = "loadDailyUsageData"
    /\ returned.blocksP = "hung"
    /\ returned.stats.tokensUsed = 0

----------------------------------------------------------------------------
(* Properties of the plan over a run of the polled engine (SpecPlanChanges) *)

\* C27: a step that is not an updateConfiguration changes the current plan
\* only from Pro to Custom, and only in a recomputation whose active block
\* total exceeds 7000 (so Max5, Max20 and Custom never change, and a promoted
\* plan stays Custom until updateConfiguration sets one); every snapshot whose
\* currentPlan is Pro has tokensUsed <= 7000 and tokenLimit = 7000.
C27_PromotionOnly ==
    /\ [][(/\ currentPlan' # currentPlan
           /\ ~(\E config \in ConfigInputs : UpdateConfiguration(config)))
             => /\ currentPlan = "Pro"
                /\ currentPlan' = "Custom"
                /\ returned'.op = "getUsageStats"
                /\ returned'.path \in {"active", "thrown"}
                /\ HasActive'
                /\ FirstActiveTotal' > 7000]_vars
    /\ []((ReturnedStats /\ returned.stats.currentPlan = "Pro") =>
              (returned.stats.tokensUsed <= 7000 /\ returned.stats.tokenLimit = 7000))

\* a recomputation under Pro over an active block of 7500 tokens promoted the
\* plan to Custom
C27_Witness ==
    /\ ReturnedStats
    /\ returned.path = "active"
    /\ returned.planBefore = "Pro"
    /\ returned.stats.tokensUsed = 7500
    /\ returned.stats.currentPlan = "Custom"
    /\ currentPlan = "Custom"

----------------------------------------------------------------------------
(* Properties of the cache under overlapping calls (Spec) *)

\* C28: for any interleaving of overlapping getUsageStats calls, lastUpdate
\* never decreases, and a cached snapshot is never replaced by the result of a
\* recomputation that started earlier than the one whose result it replaces.
C28_CacheNeverGoesBack ==
    [][/\ lastUpdate' >= lastUpdate
       /\ (cachedStats # Null /\ cachedStats' # Null) => cacheBegan' >= cacheBegan]_vars

----------------------------------------------------------------------------
(* Properties of a failed daily fetch (Spec) *)

\* C29: when the daily-aggregate fetch rejects after the session-block fetch
\* has resolved (with an active block or any other list), getUsageStats
\* returns the zero-usage default snapshot (tokensUsed = 0, empty history) and
\* caches nothing: the cache and its timestamp are left as they were, so the
\* next call fetches again (the cache is not fresh unless an overlapping call
\* has stamped it within 3000 ms of this call's beginning).
C29_DailyRejectionDiscardsBlocks ==
    [][\A s \in CallSlots :
          (/\ calls[s].pc = "awaiting"
           /\ calls[s].blocksP = "resolved"
           /\ calls'[s].pc = "idle"
           /\ returned'.op = "getUsageStats"
           /\ returned'.path = "rejected")
             => /\ returned'.settled = "resolved"
                /\ returned'.rejectedBy = "loadDailyUsageData"
                /\ returned'.stats.tokensUsed = 0
                /\ returned'.stats.thisWeek = <<>>
                /\ returned'.stats.thisMonth = <<>>
                /\ returned'.stats.today.totalTokens = 0
                /\ <<cachedStats, lastUpdate>>' = <<cachedStats, lastUpdate>>
                /\ (cachedStats = Null \/ calls[s].now - lastUpdate >= CACHE_DURATION)
                       => ~CacheIsFresh']_vars

\* the daily fetch rejected after the block fetch had resolved, in a call that
\* began once an earlier snapshot of an active session had expired
C29_Witness ==
    /\ ReturnedStats
    /\ returned.path = "rejected"
    /\ returned.rejectedBy = "loadDailyUsageData"
    /\ returned.blocksP = "resolved"
    /\ returned.stats.tokensUsed = 0
    /\ cachedStats # Null
    /\ cachedStats.tokensUsed = 5000
    /\ now - lastUpdate >= CACHE_DURATION

----------------------------------------------------------------------------
(* Properties of the custom token limit (SpecCustom) *)

\* C30: the customTokenLimit given to updateConfiguration has no effect on the
\* engine's limit: apart from the custom limit the reset service is handed,
\* the state an updateConfiguration step leads to is settled by the state
\* before and the configuration's plan field, whatever custom limit it
\* carries, and the tokenLimit, tokensRemaining and percentageUsed of every
\* snapshot returned for an active session follow from the plan, the usage and
\* the history alone, also under the Custom plan and whatever custom limit the
\* reset service holds (the default snapshot returned when the prediction
\* throws has no usage and the limit of the plan the call leaves).
C30_CustomLimitIgnored ==
    /\ [][\A config \in CustomLimitConfigInputs :
              UpdateConfiguration(config) =>
                  /\ currentPlan' = CASE ~config.plan.defined -> currentPlan
                                       [] config.plan.defined /\ config.plan.value = "auto"
                                            -> "Custom"
                                       [] OTHER -> config.plan.value
                  /\ cachedStats' = Null
                  /\ resetConfig'.timezone = resetConfig.timezone
                  /\ resetConfig'.resetHour = resetConfig.resetHour
                  /\ UNCHANGED <<now, lastUpdate, detectedTokenLimit, currentActiveBlock,
                                 historicalBlocks, calls>>]_vars
    /\ [](HasActive =>
              LET thrown == returned.path = "thrown"
                  limit == IF ~Detecting THEN FixedThreshold(returned.planBefore)
                           ELSE IF thrown THEN 500000
                           ELSE IF HistoryTotals # {} /\ HistoryMax > 0 THEN HistoryMax
                           ELSE 7000
                  used == IF thrown THEN 0 ELSE FirstActiveTotal
              IN /\ returned.stats.tokenLimit = limit
                 /\ returned.stats.tokensRemaining = IF limit > used THEN limit - used ELSE 0
                 /\ returned.stats.percentageUsed =
                        IF thrown THEN Fraction(0, 1)
                        ELSE IF used >= limit THEN Fraction(100, 1)
                        ELSE Fraction(used * 100, limit))

\* a snapshot under the Custom plan computed after a custom limit of 200000
\* was configured: the limit is the history's 40000
C30_Witness ==
    /\ HasActive
    /\ lastConfig = Defined([plan |-> Defined("Custom"), timezone |-> Undefined,
                              resetHour |-> Undefined,
                              customTokenLimit |-> Defined(200000)])
    /\ resetConfig.customTokenLimit = Defined(200000)
    /\ returned.stats.currentPlan = "Custom"
    /\ returned.stats.tokensUsed = 7500
    /\ returned.stats.tokenLimit = 40000
====
